---- MODULE Spec2Model ----
(***************************************************************************)
(* Model of the m-lab/access envelope service: the IPManager grant budget  *)
(* and iptables ruleset (address/granter.go, address/setup.go), the        *)
(* per-request session run by envelopeHandler.AllowRequest and the         *)
(* lifetime of main (cmd/envelope/main.go), and the ReadOnce waker         *)
(* (chanio).                                                               *)
(*                                                                         *)
(* Environment assumptions, stated where they are used:                    *)
(*  - the packet-filter tool either applies a command and exits 0, or      *)
(*    leaves the ruleset unchanged and exits non-zero (granter.go:47-48);  *)
(*    a delete of a rule that is not in the chain exits non-zero;          *)
(*  - a handler that panics is unwound by the HTTP server that main        *)
(*    installs (main.go:271-280); the process keeps serving;               *)
(*  - the clock is a counter of whole timeout units.                       *)
(***************************************************************************)
EXTENDS Integers, Sequences, FiniteSets, TLC

\* ------------------------------------------------------------------ bounds
NumReq == 2
MaxMaxIPs == 2
MaxTime == 2
MaxRate == 2
MaxCalls == 3
MaxFaults == 1
MaxKeys == 2
MaxTick == 3
MaxBytes == 2

\* --------------------------------------------------------------- constants
Timeout == 1
StatusSwitchingProtocols == 101
StatusBadRequest == 400
StatusMethodNotAllowed == 405
StatusInternalServerError == 500
StatusServiceUnavailable == 503
NoStatus == 0
StatusOK == 200
StatusUnauthorized == 401

subject == "envelope"
manageDevice == "eth0"
listenPort == "8880"
iptables == "/sbin/iptables"
Interfaces == <<"lo", "eth0", "net1">>

ErrNil == "nil"
ErrMaxConcurrent == "max concurrent reached"
ErrTool == "exit status 1"

Req == 1..NumReq
Methods == {"GET", "POST"}

\* ------------------------------------------------------------ remote addrs
\* The literal remote addresses requests arrive with.
RemoteAddrs == {"127.0.0.2:1234", "[2002::1]:1234", "localhost:1234", "thisisnotanip-1234"}

\* net.SplitHostPort on the addresses above: host, or an error.
SplitHostPort(ra) ==
  CASE ra = "127.0.0.2:1234" -> [host |-> "127.0.0.2", err |-> ErrNil]
    [] ra = "[2002::1]:1234" -> [host |-> "2002::1", err |-> ErrNil]
    [] ra = "localhost:1234" -> [host |-> "localhost", err |-> ErrNil]
    [] OTHER -> [host |-> "", err |-> "missing port in address"]

\* net.ParseIP: the parsed address with its family, or the nil IP.
NilIP == [str |-> "<nil>", fam |-> 0]
ParseIP(host) ==
  CASE host = "127.0.0.2" -> [str |-> "127.0.0.2", fam |-> 4]
    [] host = "2002::1" -> [str |-> "2002::1", fam |-> 6]
    [] OTHER -> NilIP

\* ------------------------------------------------------------------ claims
NoClaim == [present |-> FALSE, sub |-> "", exp |-> 0]
Subjects == {"envelope", "monitoring"}
Claims == {NoClaim} \cup
          {[present |-> TRUE, sub |-> s, exp |-> e] : s \in Subjects, e \in 0..MaxTime}

VARIABLES
  requireTokens,  \* flag envelope.token-required
  maxIPs,         \* flag envelope.max-clients: capacity of the semaphore
  now,            \* the wall clock
  mainpc,         \* position of main()
  started,        \* commands of the script that main's call of Start has run
  policy,         \* default policy of the INPUT chain
  chain,          \* the live INPUT chain, first rule first
  origRules,      \* IPManager.origRules: <<>> when nil, else <<the saved ruleset>>
  cur,            \* semaphore.Weighted.cur: reserved units
  pc,             \* position of each request's handler
  req,            \* the request: method, remote address, attached claim
  remote,         \* AllowRequest's local `remote`
  deadline,       \* AllowRequest's local `deadline`
  status,         \* status code written to the response
  grantErr,       \* value returned by Grant, "-" before it returns
  revokeErr,      \* value returned by Revoke, "-" before it returns
  calls,          \* manager calls made by the handler, in order
  hist,           \* steps taken on behalf of the session, in order
  conn,           \* the upgraded connection: "none", "open", "closed"
  rd,             \* the ReadOnce channel: "none", "reading" (open), "closed"
  ctxDone,        \* the request context has been cancelled
  Required,       \* TokenController.Required
  gates,          \* the chain Setup composed, outermost gate first
  limit,          \* TxController.limit: the ceiling, 0 when unset
  current,        \* TxController.current: the smoothed rate
  greq,           \* the request passing the chain: path, token, what Verify returns
  gpc,            \* the handler of the chain that runs next for that request
  gclaim,         \* the claim attached to the request context
  gcode,          \* status code written to that request's response
  gtrace,         \* handlers and calls the request went through, in order
  acc,            \* the last TxController.Accept: what the listener gave, what it returned
  mgrLog,         \* Start and Stop calls made on the IPManager, with what they returned
  vkeys,          \* the serialized keys handed to NewVerifier
  verifier,       \* what NewVerifier returned: the Verifier or nil, and the error
  tok,            \* the token at hand
  vres,           \* what Verify returned for it: the claims or nil, and the error
  watch,          \* TxController.Watch: its position, its locals, its context, what it returned
  reader,         \* chanio.ReadOnce, per call: the io.Reader, the goroutine, the channel
  Expected,       \* TokenController.Expected
  treq            \* the requests inside TokenController.Limit, per request

\* The admission chain (package controller).
ctlvars == <<Required, gates, limit, current, greq, gpc, gclaim, gcode, gtrace, acc>>
\* Direct calls of the IPManager's Start and Stop.
apivars == <<mgrLog>>
\* Configuration, and the state of the components the session never touches.
\* Keys, verifier and token of package token.
tokvars == <<vkeys, verifier, tok, vres>>
cfgvars == <<requireTokens, maxIPs, ctlvars, apivars, tokvars, watch, reader, Expected, treq>>
mainvars == <<mainpc, started>>
fwvars == <<policy, chain, origRules>>
reqvars == <<pc, req, remote, deadline, status, grantErr, revokeErr, calls, hist, conn, rd, ctxDone>>
vars == <<requireTokens, maxIPs, now, mainpc, started, policy, chain, origRules, cur,
          pc, req, remote, deadline, status, grantErr, revokeErr, calls, hist, conn, rd, ctxDone,
          Required, gates, limit, current, greq, gpc, gclaim, gcode, gtrace, acc, mgrLog,
          vkeys, verifier, tok, vres, watch, reader, Expected, treq>>

\* ------------------------------------------------------------ the ruleset
\* The ruleset found on the host before the service starts.
HostPolicy == "ACCEPT"
HostChain == << <<"--jump=ACCEPT">> >>

Snapshot(p, c) == [policy |-> p, chain |-> c]

\* cmdForIP: the tool and the mask for an address.
cmdForIP(ip) ==
  IF ip.fam = 4 THEN <<iptables, "/24">> ELSE <<iptables, "/64">>

\* ipTable that names the address alone as the source, without the mask.
ipTable_NoSubnet(command, ip) ==
  [cmd |-> cmdForIP(ip)[1], op |-> command, target |-> "INPUT",
   rule |-> <<"--source=", ip.str, "", "--jump=ACCEPT">>]

\* ipTable: the command line that inserts or deletes the rule of an address.
ipTable(command, ip) ==
  [cmd |-> cmdForIP(ip)[1], op |-> command, target |-> "INPUT",
   rule |-> <<"--source=", ip.str, cmdForIP(ip)[2], "--jump=ACCEPT">>]

\* The tool refuses a source that is not an address.
ValidSource(rule) == rule[2] # NilIP.str

RECURSIVE RemoveFirst(_, _)
RemoveFirst(s, x) ==
  IF s = <<>> THEN <<>>
  ELSE IF Head(s) = x THEN Tail(s)
  ELSE <<Head(s)>> \o RemoveFirst(Tail(s), x)

InChain(c, x) == \E i \in 1..Len(c) : c[i] = x

\* Can the tool carry out the command on chain c?
ToolCanRun(e, c) ==
  CASE e.op = "insert" -> ValidSource(e.rule)
    [] e.op = "delete" -> ValidSource(e.rule) /\ InChain(c, e.rule)
    [] OTHER -> TRUE

\* The chain after the tool carried out the command.
ToolApply(e, c) ==
  CASE e.op = "insert" -> <<e.rule>> \o c
    [] e.op = "delete" -> RemoveFirst(c, e.rule)
    [] e.op = "append" -> Append(c, e.rule)
    [] e.op = "flush" -> <<>>
    [] OTHER -> c

\* allowedInterfaces that does not leave out the managed device.
RECURSIVE allowedInterfaces_All(_, _)
allowedInterfaces_All(ifaces, name) ==
  IF ifaces = <<>> THEN <<>>
  ELSE << [cmd |-> iptables, op |-> "append", target |-> "INPUT",
           rule |-> <<"--in-interface=", Head(ifaces), "--protocol=all", "--jump=ACCEPT">>] >>
       \o allowedInterfaces_All(Tail(ifaces), name)

\* allowedInterfaces: one ACCEPT per interface other than the managed one.
RECURSIVE allowedInterfaces(_, _)
allowedInterfaces(ifaces, name) ==
  IF ifaces = <<>> THEN <<>>
  ELSE (IF Head(ifaces) # name
          THEN << [cmd |-> iptables, op |-> "append", target |-> "INPUT",
                   rule |-> <<"--in-interface=", Head(ifaces), "--protocol=all", "--jump=ACCEPT">>] >>
          ELSE <<>>)
       \o allowedInterfaces(Tail(ifaces), name)

\* The commands of Start's script, in order.
StartCommands(port, device) ==
  << [cmd |-> iptables, op |-> "flush", target |-> "", rule |-> <<>>],
     [cmd |-> iptables, op |-> "policy", target |-> "INPUT", rule |-> <<"DROP">>] >>
  \o allowedInterfaces(Interfaces, device)
  \o << [cmd |-> iptables, op |-> "append", target |-> "INPUT",
         rule |-> <<"--protocol=tcp", "--dport=", port, "--jump=ACCEPT">>],
        [cmd |-> iptables, op |-> "append", target |-> "INPUT",
         rule |-> <<"--protocol=udp", "--dport=53", "--jump=ACCEPT">>],
        [cmd |-> iptables, op |-> "append", target |-> "INPUT",
         rule |-> <<"--match=conntrack", "--ctstate=ESTABLISHED,RELATED", "--jump=ACCEPT">>],
        [cmd |-> iptables, op |-> "append", target |-> "INPUT",
         rule |-> <<"--jump=REJECT">>] >>

\* The ruleset after one command of a script ran on it.
RunCommand(e, rs) ==
  IF e.op = "policy"
    THEN Snapshot(e.rule[1], rs.chain)
    ELSE Snapshot(rs.policy, ToolApply(e, rs.chain))

\* ------------------------------------------------------------- getDeadline
\* getDeadline that returns the claim's expiry as it is.
getDeadline_ExpiryOnly(cl, t1, t2) ==
  IF ~cl.present /\ requireTokens
    THEN [t |-> 0, err |-> "missing claim when tokens required"]
  ELSE IF ~cl.present THEN [t |-> t1 + Timeout, err |-> ErrNil]
  ELSE IF cl.sub # subject THEN [t |-> 0, err |-> "wrong claim subject"]
  ELSE IF cl.exp < t2 THEN [t |-> 0, err |-> "already past claim expiration"]
  ELSE [t |-> cl.exp, err |-> ErrNil]

\* getDeadline that accepts a claim made out to any subject.
getDeadline_AnySubject(cl, t1, t2) ==
  IF ~cl.present /\ requireTokens
    THEN [t |-> 0, err |-> "missing claim when tokens required"]
  ELSE IF ~cl.present THEN [t |-> t1 + Timeout, err |-> ErrNil]
  ELSE IF cl.exp < t2 THEN [t |-> 0, err |-> "already past claim expiration"]
  ELSE IF cl.exp < t1 + Timeout THEN [t |-> t1 + Timeout, err |-> ErrNil]
  ELSE [t |-> cl.exp, err |-> ErrNil]

\* getDeadline: t1 and t2 are the two readings of the clock.
getDeadline_ClaimOptional(cl, t1, t2) ==
  LET minDeadline == t1 + Timeout IN
    IF ~cl.present THEN [t |-> minDeadline, err |-> ErrNil]
    ELSE IF cl.sub # subject THEN [t |-> 0, err |-> "wrong claim subject"]
    ELSE IF cl.exp < t2 THEN [t |-> 0, err |-> "already past claim expiration"]
    ELSE IF cl.exp < minDeadline THEN [t |-> minDeadline, err |-> ErrNil]
    ELSE [t |-> cl.exp, err |-> ErrNil]

getDeadline(cl, t1, t2) ==
  IF ~cl.present /\ requireTokens
    THEN [t |-> 0, err |-> "missing claim when tokens required"]
  ELSE LET minDeadline == t1 + Timeout IN
    IF ~cl.present THEN [t |-> minDeadline, err |-> ErrNil]
    ELSE IF cl.sub # subject THEN [t |-> 0, err |-> "wrong claim subject"]
    ELSE IF cl.exp < t2 THEN [t |-> 0, err |-> "already past claim expiration"]
    ELSE IF cl.exp < minDeadline THEN [t |-> minDeadline, err |-> ErrNil]
    ELSE [t |-> cl.exp, err |-> ErrNil]

\* ------------------------------------------------- float64 and uint64
\* TxController.current is a uint64 and Watch computes it in float64. Such
\* values are wider than the integers at hand, so a natural number is kept
\* as its limbs, least significant first, with no leading zero limb.
Limb == 2^15

RECURSIVE IntBits(_)
IntBits(n) == IF n = 0 THEN 0 ELSE 1 + IntBits(n \div 2)
LimbBits == IntBits(Limb - 1)

RECURSIVE Big(_)
Big(n) == IF n = 0 THEN <<>> ELSE <<n % Limb>> \o Big(n \div Limb)

RECURSIVE Trim(_)
Trim(x) ==
  IF x # <<>> /\ x[Len(x)] = 0 THEN Trim(SubSeq(x, 1, Len(x) - 1)) ELSE x

Digit(x, i) == IF i <= Len(x) THEN x[i] ELSE 0

RECURSIVE AddFrom(_, _, _, _)
AddFrom(x, y, i, carry) ==
  IF i > Len(x) /\ i > Len(y) THEN (IF carry = 0 THEN <<>> ELSE <<carry>>)
  ELSE LET s == Digit(x, i) + Digit(y, i) + carry
       IN <<s % Limb>> \o AddFrom(x, y, i + 1, s \div Limb)

BigAdd(x, y) == AddFrom(x, y, 1, 0)

RECURSIVE SubFrom(_, _, _, _)
SubFrom(x, y, i, borrow) ==
  IF i > Len(x) THEN <<>>
  ELSE LET s == Digit(x, i) - Digit(y, i) - borrow
       IN IF s < 0 THEN <<s + Limb>> \o SubFrom(x, y, i + 1, 1)
          ELSE <<s>> \o SubFrom(x, y, i + 1, 0)

\* x - y for x >= y.
BigSub(x, y) == Trim(SubFrom(x, y, 1, 0))

RECURSIVE CmpFrom(_, _, _)
CmpFrom(x, y, i) ==
  IF i = 0 THEN 0
  ELSE IF x[i] > y[i] THEN 1
  ELSE IF x[i] < y[i] THEN -1
  ELSE CmpFrom(x, y, i - 1)

\* -1, 0 or 1 as x is below, equal to or above y.
BigCmp(x, y) ==
  IF Len(x) > Len(y) THEN 1
  ELSE IF Len(x) < Len(y) THEN -1
  ELSE CmpFrom(x, y, Len(x))

RECURSIVE MulFrom(_, _, _, _)
MulFrom(x, k, i, carry) ==
  IF i > Len(x) THEN (IF carry = 0 THEN <<>> ELSE <<carry>>)
  ELSE LET s == x[i] * k + carry
       IN <<s % Limb>> \o MulFrom(x, k, i + 1, s \div Limb)

\* x * k for 0 <= k <= Limb.
BigMulSmall(x, k) == IF k = 0 THEN <<>> ELSE MulFrom(x, k, 1, 0)

\* x * Limb^n.
LimbShift(x, n) == IF x = <<>> THEN <<>> ELSE [i \in 1..n |-> 0] \o x

RECURSIVE BigMul(_, _)
BigMul(x, y) ==
  IF y = <<>> THEN <<>>
  ELSE BigAdd(BigMulSmall(x, Head(y)), LimbShift(BigMul(x, Tail(y)), 1))

\* x * 2^n and the integer part of x / 2^n.
Shl(x, n) == LimbShift(BigMulSmall(x, 2^(n % LimbBits)), n \div LimbBits)
Shr(x, n) ==
  LET k == n \div LimbBits
      s == 2^(n % LimbBits)
      y == IF k >= Len(x) THEN <<>> ELSE SubSeq(x, k + 1, Len(x))
  IN Trim([i \in 1..Len(y) |-> (y[i] \div s) + (Digit(y, i + 1) % s) * (Limb \div s)])

\* The number of bits of x.
BigBits(x) == IF x = <<>> THEN 0 ELSE LimbBits * (Len(x) - 1) + IntBits(x[Len(x)])

\* One digit of a long division: the quotient q < Limb of r by d and what is
\* left of r, for a divisor of four limbs whose top limb is at least Limb/2.
\* The estimate from the leading limbs is at most two above the digit.
DivStep(r, d) ==
  LET top == Digit(r, 5) * Limb + Digit(r, 4)
      est == IF top \div d[4] >= Limb THEN Limb - 1 ELSE top \div d[4]
      fits(c) == BigCmp(BigMulSmall(d, c), r) <= 0
      q == IF fits(est) THEN est ELSE IF fits(est - 1) THEN est - 1 ELSE est - 2
  IN [q |-> q, r |-> BigSub(r, BigMulSmall(d, q))]

\* The quotient and the remainder of r * Limb^k by d, for r < d * Limb: the
\* digit at Limb^k, then the digits of what is left.
RECURSIVE DivLoop(_, _, _)
DivLoop(r, d, k) ==
  CHOOSE v \in
    {IF k = 0 THEN [q |-> Trim(<<s.q>>), r |-> s.r]
     ELSE LET t == DivLoop(LimbShift(s.r, 1), d, k - 1)
          IN [q |-> Trim(t.q \o [i \in 1..(k - Len(t.q)) |-> 0] \o <<s.q>>),
              r |-> t.r] : s \in {DivStep(r, d)}} : TRUE

\* A float64 that is zero or positive and finite: the value m * 2^e with
\* 2^52 <= m < 2^53, or m = 0.
Float64Zero == [m |-> <<>>, e |-> 0]

\* The float64 nearest to n * 2^e, ties to even; sticky: the value lies
\* above n * 2^e by less than one unit of n.
Float64(n, e, sticky) ==
  IF n = <<>> THEN Float64Zero
  ELSE LET s == BigBits(n) - 53
       IN IF s <= 0 THEN [m |-> Shl(n, -s), e |-> e + s]
          ELSE LET q == Shr(n, s)
                   c == BigCmp(Shl(BigSub(n, Shl(q, s)), 1), Shl(<<1>>, s))
                   up == c > 0 \/ (c = 0 /\ (sticky \/ q[1] % 2 = 1))
                   r == IF up THEN BigAdd(q, <<1>>) ELSE q
               IN IF BigBits(r) > 53 THEN [m |-> Shr(r, 1), e |-> e + s + 1]
                  ELSE [m |-> r, e |-> e + s]

\* x + y and x - y (for x >= y) of values m * 2^e, exact.
ExactAdd(x, y) ==
  LET e == IF x.e < y.e THEN x.e ELSE y.e
  IN IF x.m = <<>> THEN y ELSE IF y.m = <<>> THEN x
     ELSE [m |-> BigAdd(Shl(x.m, x.e - e), Shl(y.m, y.e - e)), e |-> e]
ExactSub(x, y) ==
  LET e == IF x.e < y.e THEN x.e ELSE y.e
  IN IF y.m = <<>> THEN x
     ELSE [m |-> BigSub(Shl(x.m, x.e - e), Shl(y.m, y.e - e)), e |-> e]
ExactMul(x, y) == [m |-> BigMul(x.m, y.m), e |-> x.e + y.e]

\* float64 operations, each rounded once.
FromBig(n) == Float64(n, 0, FALSE)
FromInt(n) == FromBig(Big(n))
FAdd(x, y) == LET s == ExactAdd(x, y) IN Float64(s.m, s.e, FALSE)
FSub(x, y) == LET s == ExactSub(x, y) IN Float64(s.m, s.e, FALSE)
FMul(x, y) == LET p == ExactMul(x, y) IN Float64(p.m, p.e, FALSE)
FMA(x, y, z) == LET s == ExactAdd(ExactMul(x, y), z) IN Float64(s.m, s.e, FALSE)
FDiv(x, y) ==
  IF x.m = <<>> THEN Float64Zero
  ELSE LET d == DivLoop(Shl(x.m, 7), Shl(y.m, 7), 4)
       IN Float64(d.q, x.e - y.e - 4 * LimbBits, d.r # <<>>)
FCmp(x, y) ==
  IF x.m = <<>> THEN (IF y.m = <<>> THEN 0 ELSE -1)
  ELSE IF y.m = <<>> THEN 1
  ELSE IF x.e > y.e THEN 1
  ELSE IF x.e < y.e THEN -1
  ELSE BigCmp(x.m, y.m)
FMax(x, y) == IF FCmp(x, y) >= 0 THEN x ELSE y
\* The integer part.
FTrunc(x) == IF x.e >= 0 THEN Shl(x.m, x.e) ELSE Shr(x.m, 0 - x.e)

\* uint64 arithmetic: the value modulo 2^64.
Mod64(x) == BigSub(x, Shl(Shr(x, 64), 64))

\* uint64(x) of a float64: the fraction is cut off. A value of 2^64 or more
\* does not fit, and what the conversion gives then depends on the build;
\* sat: it gives the largest uint64, otherwise 2^63.
Uint64(x, sat) ==
  LET n == FTrunc(x)
  IN IF BigBits(n) <= 64 THEN n
     ELSE IF sat THEN BigSub(Shl(<<1>>, 64), <<1>>)
     ELSE Shl(<<1>>, 63)

\* ------------------------------------------------------ admission chain
monitorSubject == "monitoring"
ErrInvalidVerifier == "verifier is invalid"
ErrNoDevice == "no device found"
ErrNilPaths == "nil paths value given"
ErrInvalidIssuer == "square/go-jose/jwt: validation failed, invalid issuer claim (iss)"
ErrInvalidAudience == "square/go-jose/jwt: validation failed, invalid audience claim (aud)"
ErrProcFS == "could not read /proc"
ErrNetDevRead == "could not read /proc/net/dev"
ErrNetDev == "Given device not found"
ErrVerify == "validation failed"

\* Resource paths requests are made to, and the set the gates enforce.
Paths == {"/v0/envelope/access", "/metrics"}
Enforced == {"/v0/envelope/access"}
Tokens == {"", "this-is-a-fake-token"}
Devices == {"", "eth0", "no-such-device"}

\* What Verifier.Verify returns for a request's token: a claim, or an error.
VerifyResults ==
  {[claim |-> NoClaim, err |-> ErrVerify]} \cup
  {[claim |-> [present |-> TRUE, sub |-> sb, exp |-> MaxTime], err |-> ErrNil] :
     sb \in Subjects}

NoGateReq == [path |-> "", token |-> "", verify |-> [claim |-> NoClaim, err |-> ErrNil]]
GateReqs == {[path |-> p, token |-> t, verify |-> v] :
               p \in Paths, t \in Tokens, v \in VerifyResults}

\* IsMonitoring: a nil claim is not monitoring.
IsMonitoring_WrongSubject(cl) == cl.present /\ cl.sub = "envelope"

IsMonitoring(cl) == IF ~cl.present THEN FALSE ELSE cl.sub = monitorSubject

\* The jwt.Expected a token controller is built with: issuer and audience.
\* An audience of <<>> is nil.
ExpectedOf(issuer, machine) == [iss |-> issuer, aud |-> <<machine>>, time |-> 0]
GoodExpected == ExpectedOf("issuer", "mlab1")
SetupExpecteds ==
  {GoodExpected, ExpectedOf("", "mlab1"), ExpectedOf("issuer", ""),
   [iss |-> "issuer", aud |-> <<>>, time |-> 0]}

\* NewTokenController: the error it returns.
NewTokenController(verifierNil, exp) ==
  IF verifierNil THEN ErrInvalidVerifier
  ELSE IF exp.iss = "" THEN ErrInvalidIssuer
  ELSE IF exp.aud = <<>> \/ \E i \in DOMAIN exp.aud : exp.aud[i] = ""
    THEN ErrInvalidAudience
  ELSE ErrNil

\* readNetDevLine: the device's line of /proc/net/dev, or an error.
\* netDevOK: pfs.NetDev() can read the file; txBytes: the device's counter.
readNetDevLine(netDevOK, dev, txBytes) ==
  IF ~netDevOK THEN [err |-> ErrNetDevRead, TxBytes |-> 0]
  ELSE IF \A i \in 1..Len(Interfaces) : Interfaces[i] # dev
    THEN [err |-> ErrNetDev, TxBytes |-> 0]
  ELSE [err |-> ErrNil, TxBytes |-> txBytes]

\* NewTxController: the error it returns. enforcedNil: the paths given are
\* nil; dev: the device flag; procOK: procfs.NewFS(procPath) succeeds;
\* netDevOK: /proc/net/dev can be read.
NewTxController(enforcedNil, dev, procOK, netDevOK) ==
  IF enforcedNil THEN ErrNilPaths
  ELSE IF dev = "" THEN ErrNoDevice
  ELSE IF ~procOK THEN ErrProcFS
  ELSE readNetDevLine(netDevOK, dev, 0).err

\* Setup with the rate gate appended before the credential gate.
Setup_TxFirst(verifierNil, exp, enforcedNil, dev, procOK, netDevOK) ==
  (IF NewTxController(enforcedNil, dev, procOK, netDevOK) = ErrNil THEN <<"tx">> ELSE <<>>)
  \o (IF NewTokenController(verifierNil, exp) = ErrNil THEN <<"token">> ELSE <<>>)

\* Setup: the chain of gates, each left out when its constructor fails. The
\* arguments are what the two constructors are given and read.
Setup(verifierNil, exp, enforcedNil, dev, procOK, netDevOK) ==
  (IF NewTokenController(verifierNil, exp) = ErrNil THEN <<"token">> ELSE <<>>)
  \o (IF NewTxController(enforcedNil, dev, procOK, netDevOK) = ErrNil THEN <<"tx">> ELSE <<>>)

\* alice.Chain.Then: the handler a gate hands the request to.
After(g) ==
  LET i == CHOOSE j \in 1..Len(gates) : gates[j] = g
  IN IF i < Len(gates) THEN gates[i + 1] ELSE "next"

First == IF gates = <<>> THEN "next" ELSE gates[1]

\* isVerified that accepts any request when tokens are not required.
isVerified_AcceptWhenOptional(r) ==
  IF ~Required
    THEN [verified |-> TRUE, claim |-> NoClaim, called |-> FALSE]
  ELSE IF r.token = ""
    THEN [verified |-> FALSE, claim |-> NoClaim, called |-> FALSE]
  ELSE IF r.verify.err # ErrNil
    THEN [verified |-> FALSE, claim |-> NoClaim, called |-> TRUE]
  ELSE [verified |-> TRUE, claim |-> r.verify.claim, called |-> TRUE]

\* isVerified: accepted or not, the claim put in the context, and whether
\* Verify was called.
isVerified(r) ==
  IF r.token = "" /\ ~Required
    THEN [verified |-> TRUE, claim |-> NoClaim, called |-> FALSE]
  ELSE IF r.token = ""
    THEN [verified |-> FALSE, claim |-> NoClaim, called |-> FALSE]
  ELSE IF r.verify.err # ErrNil
    THEN [verified |-> FALSE, claim |-> NoClaim, called |-> TRUE]
  ELSE [verified |-> TRUE, claim |-> r.verify.claim, called |-> TRUE]

\* isLimited that also rejects at the ceiling.
isLimited_AtCeiling(monitoring, enforcedPath) ==
  limit > 0 /\ BigCmp(current, Big(limit)) >= 0 /\ ~monitoring /\ enforcedPath

\* isLimited: the rate is read once and compared with the ceiling.
isLimited(monitoring, enforcedPath) ==
  limit > 0 /\ BigCmp(current, Big(limit)) > 0 /\ ~monitoring /\ enforcedPath

\* ---------------------------------------------------------- package token
\* Errors carry the sentinel they wrap and the key id formatted into them.
NoErr == [is |-> "nil", kid |-> ""]
Err(sentinel, kid) == [is |-> sentinel, kid |-> kid]
ErrDuplicateKeyID == "Duplicate KeyID found"
ErrKeyIDNotFound == "Key ID not found for given token header"

\* jwt.DefaultLeeway, which Claims.Validate applies: one minute, the unit of
\* the clock.
DefaultLeeway == 1

\* Serialized JWKs of elliptic-curve keys. mat names the key pair the key
\* belongs to and alg is the "alg" member, "" when the JWK has none; the
\* curve of a pair is the one its algorithm signs on (P-256 for ES256,
\* P-384 for ES384).
JWK(kid, mat, alg, public) == [ok |-> TRUE, kid |-> kid, mat |-> mat, public |-> public, alg |-> alg]
NotAKey == [ok |-> FALSE, kid |-> "", mat |-> "", public |-> FALSE, alg |-> ""]
PublicJWKs ==
  {JWK("112", "pair1", "ES256", TRUE), JWK("113", "pair2", "ES256", TRUE),
   JWK("112", "pair2", "ES256", TRUE), JWK("384", "pair3", "ES384", TRUE)}
PrivateJWKs ==
  {JWK("112", "pair1", "ES256", FALSE), JWK("113", "pair2", "ES256", FALSE),
   JWK("999", "pair2", "ES256", FALSE), JWK("384", "pair3", "ES384", FALSE),
   JWK("114", "pair4", "", FALSE)}
VerifyKeys == PublicJWKs \cup {JWK("112", "pair1", "ES256", FALSE), NotAKey}
VerifyKeySeqs == UNION {[1..n -> VerifyKeys] : n \in 0..MaxKeys}

\* jwt.Claims: issuer, audience, and the expiry (<<>> when nil).
NoJwtClaims == [iss |-> "", aud |-> <<>>, exp |-> <<>>]
Audiences == {<<>>, <<"mlab1">>, <<"mlab1", "mlab2">>}
JwtClaims == {[iss |-> i, aud |-> a, exp |-> e] :
                i \in {"issuer", "other"}, a \in Audiences,
                e \in {<<>>} \cup {<<n>> : n \in 0..MaxTime}}
\* jwt.Expected: issuer, AnyAudience, and the evaluation instant.
Instants == 0..(MaxTime + DefaultLeeway + 1)
Expecteds == {[iss |-> i, aud |-> a, time |-> t] :
                i \in {"", "issuer"}, a \in {<<>>, <<"mlab1">>}, t \in Instants}

\* LoadJSONWebKey: the JWK parses, is valid and is of the kind asked for.
\* The algorithm it declares is not looked at.
LoadJSONWebKey(json, isPublic) ==
  IF ~json.ok THEN [key |-> NotAKey, err |-> Err("unmarshal", "")]
  ELSE IF json.public # isPublic THEN [key |-> NotAKey, err |-> Err("invalid JSON web key", "")]
  ELSE [key |-> json, err |-> NoErr]

\* A map from key id to key, and the map with one entry set.
NoKeys == [k \in {} |-> NotAKey]
Put(m, k, v) == [x \in DOMAIN m \cup {k} |-> IF x = k THEN v ELSE m[x]]
NilVerifier(err) == [nil |-> TRUE, keys |-> NoKeys, err |-> err]

\* The loop of NewVerifier that lets a later key replace an earlier one with
\* the same key id.
RECURSIVE NewVerifierLoop_Overwrite(_, _)
NewVerifierLoop_Overwrite(keys, pubKeys) ==
  IF keys = <<>> THEN [nil |-> FALSE, keys |-> pubKeys, err |-> NoErr]
  ELSE LET l == LoadJSONWebKey(Head(keys), TRUE)
       IN IF l.err # NoErr THEN NilVerifier(l.err)
          ELSE NewVerifierLoop_Overwrite(Tail(keys), Put(pubKeys, l.key.kid, l.key))

\* The loop of NewVerifier over the keys that are left, with the map built
\* so far.
RECURSIVE NewVerifierLoop(_, _)
NewVerifierLoop(keys, pubKeys) ==
  IF keys = <<>> THEN [nil |-> FALSE, keys |-> pubKeys, err |-> NoErr]
  ELSE LET l == LoadJSONWebKey(Head(keys), TRUE)
       IN IF l.err # NoErr THEN NilVerifier(l.err)
          ELSE IF l.key.kid \in DOMAIN pubKeys
            THEN NilVerifier(Err(ErrDuplicateKeyID, l.key.kid))
          ELSE NewVerifierLoop(Tail(keys), Put(pubKeys, l.key.kid, l.key))

NewVerifier(keys) == NewVerifierLoop(keys, NoKeys)

\* The JSON object of a jwt.Claims: a field that is empty is left out, and
\* an audience of one is written as a string.
MarshalClaims(cl) ==
  [iss |-> IF cl.iss = "" THEN <<>> ELSE <<cl.iss>>,
   aud |-> [kind |-> CASE Len(cl.aud) = 0 -> "absent"
                       [] Len(cl.aud) = 1 -> "string"
                       [] OTHER -> "array",
            v |-> cl.aud],
   exp |-> cl.exp]

\* The jwt.Claims read from that object: a field left out reads as its zero
\* value.
UnmarshalClaims(p) ==
  [iss |-> IF p.iss = <<>> THEN "" ELSE p.iss[1],
   aud |-> IF p.aud.kind = "absent" THEN <<>> ELSE p.aud.v,
   exp |-> p.exp]

\* The signature of a key pair over the protected header and the payload.
\* Only the private key of the pair produces it; the public key of the same
\* pair accepts it and nothing else.
Signature(mat, alg, kid, payload) == [mat |-> mat, alg |-> alg, kid |-> kid, payload |-> payload]

\* A token that does not parse ("a.b.c").
BadToken ==
  [wellformed |-> FALSE, alg |-> "", kid |-> "", payload |-> MarshalClaims(NoJwtClaims),
   sig |-> Signature("", "", "", MarshalClaims(NoJwtClaims))]

\* NewSigner: the private key is loaded and jose.NewSigner makes a signer
\* for the algorithm the key declares; for an elliptic-curve key it does so
\* for ES256, ES384 and ES512 and returns ErrUnsupportedAlgorithm for any
\* other, a key without "alg" included.
NewSigner(key) ==
  LET priv == LoadJSONWebKey(key, FALSE)
  IN IF priv.err # NoErr THEN priv
     ELSE IF priv.key.alg \notin {"ES256", "ES384", "ES512"}
       THEN [key |-> NotAKey, err |-> Err("unsupported algorithm", "")]
     ELSE priv

\* Signer.Sign: the compact token for the claims, its header naming the
\* algorithm and the key id of the private key.
Sign(signer, cl) ==
  LET payload == MarshalClaims(cl)
  IN [wellformed |-> TRUE, alg |-> signer.key.alg, kid |-> signer.key.kid, payload |-> payload,
      sig |-> Signature(signer.key.mat, signer.key.alg, signer.key.kid, payload)]

\* jwt.ParseSigned restricted to the algorithms Claims names.
SignatureAlgorithms == {"EdDSA", "ES256", "RS256"}
ParseSigned(token) ==
  IF token.wellformed /\ token.alg \in SignatureAlgorithms THEN NoErr ELSE Err("parse", "")

\* Verifier.Claims that tries every key of the set until one accepts the
\* signature.
VerifierClaims_TryEveryKey(v, token) ==
  IF ParseSigned(token) # NoErr
    THEN [cl |-> NoJwtClaims, nil |-> TRUE, err |-> ParseSigned(token), tried |-> {}]
  ELSE LET good == {k \in DOMAIN v.keys :
                      token.sig = Signature(v.keys[k].mat, token.alg, token.kid, token.payload)}
       IN IF good = {}
            THEN [cl |-> NoJwtClaims, nil |-> TRUE, err |-> Err(ErrKeyIDNotFound, token.kid),
                  tried |-> DOMAIN v.keys]
          ELSE [cl |-> UnmarshalClaims(token.payload), nil |-> FALSE, err |-> NoErr,
                tried |-> DOMAIN v.keys]

\* Verifier.Claims: the claims of the token, or nil and an error. tried: the
\* key ids of the keys the signature was checked against.
VerifierClaims(v, token) ==
  IF ParseSigned(token) # NoErr
    THEN [cl |-> NoJwtClaims, nil |-> TRUE, err |-> ParseSigned(token), tried |-> {}]
  ELSE IF token.kid \notin DOMAIN v.keys
    THEN [cl |-> NoJwtClaims, nil |-> TRUE, err |-> Err(ErrKeyIDNotFound, token.kid), tried |-> {}]
  ELSE IF token.sig # Signature(v.keys[token.kid].mat, token.alg, token.kid, token.payload)
    THEN [cl |-> NoJwtClaims, nil |-> TRUE, err |-> Err("error in cryptographic primitive", ""),
          tried |-> {token.kid}]
  ELSE [cl |-> UnmarshalClaims(token.payload), nil |-> FALSE, err |-> NoErr, tried |-> {token.kid}]

\* jwt.Claims.Validate: ValidateWithLeeway under DefaultLeeway.
Validate(cl, e) ==
  IF e.iss # "" /\ e.iss # cl.iss THEN Err("invalid issuer claim (iss)", "")
  ELSE IF Len(e.aud) # 0 /\ ~\E i \in DOMAIN e.aud, j \in DOMAIN cl.aud : e.aud[i] = cl.aud[j]
    THEN Err("invalid audience claim (aud)", "")
  ELSE IF cl.exp # <<>> /\ e.time - DefaultLeeway > cl.exp[1]
    THEN Err("token is expired (exp)", "")
  ELSE NoErr

\* Verifier.Verify: on a validation error the claims are returned with it.
Verify(v, token, e) ==
  LET c == VerifierClaims(v, token)
  IN IF c.err # NoErr THEN c
     ELSE [c EXCEPT !.err = Validate(c.cl, e)]

NoVerifier == NilVerifier(NoErr)
NoExpected == [iss |-> "", aud |-> <<>>, time |-> 0]
NoResult == [cl |-> NoJwtClaims, nil |-> TRUE, err |-> NoErr, tried |-> {}, expected |-> NoExpected]

TokInit ==
  /\ vkeys = <<>>
  /\ verifier = NoVerifier
  /\ tok = BadToken
  /\ vres = NoResult

\* ------------------------------------------------ TxController.Watch
\* Time is counted in halves of the sampling period.
Period == 2
UnitsPerSecond == 20

\* ctx.Err() of a context that is done.
CtxErrs == {"context canceled", "context deadline exceeded"}

\* What readNetDevLine can return to Watch: an error, or the counter of the
\* device, which may be below the one remembered (the device was set up
\* again).
NoNetDevLine == [err |-> "-", TxBytes |-> 0]
NetDevLines ==
  {readNetDevLine(FALSE, manageDevice, 0), readNetDevLine(TRUE, "", 0)}
  \cup {readNetDevLine(TRUE, manageDevice, b) : b \in 0..MaxBytes}

\* What the build decides. fma: which product of
\* (1-alpha)*ratePrev + alpha*rateNow, if any, is fused with the addition
\* into one operation that rounds once; the other product is rounded before
\* it is added. sat: a float64 too large for uint64 converts to the largest
\* uint64.
Builds == [fma : {"none", "first", "second"}, sat : BOOLEAN]

\* time.Duration.Seconds of d units: float64(sec) + float64(nsec)/1e9.
NanosPerSecond == 10^9
Seconds(d) ==
  FAdd(FromInt(d \div UnitsPerSecond),
       FDiv(FromInt((d % UnitsPerSecond) * (NanosPerSecond \div UnitsPerSecond)),
            FromInt(NanosPerSecond)))

\* alpha := tx.period.Seconds() / 2
alpha == FDiv(Seconds(Period), FromInt(2))

\* The rate of one interval in bit/s:
\* float64(8*(cur.TxBytes-prevTxBytes)) / tickNow.Sub(tickPrev).Seconds(),
\* the difference and the product taken in uint64.
rateNow(curTxBytes, prevTxBytes, elapsed) ==
  LET diff == IF curTxBytes >= prevTxBytes THEN Big(curTxBytes - prevTxBytes)
              ELSE BigSub(Shl(<<1>>, 64), Big(prevTxBytes - curTxBytes))
  IN FDiv(FromBig(Mod64(BigMulSmall(diff, 8))), Seconds(elapsed))

\* The estimate after an interval:
\* math.Max(rateNow, (1-alpha)*ratePrev+alpha*rateNow).
Smoothed(rate, ratePrev, fma) ==
  LET w == FSub(FromInt(1), alpha)
      mean == CASE fma = "first" -> FMA(w, ratePrev, FMul(alpha, rate))
                [] fma = "second" -> FMA(alpha, rate, FMul(w, ratePrev))
                [] OTHER -> FAdd(FMul(w, ratePrev), FMul(alpha, rate))
  IN FMax(rate, mean)

\* tickNow.Sub(tickPrev).Seconds() > tx.period.Seconds()/2
LongEnough(tickNow, tickPrev) == FCmp(Seconds(tickNow - tickPrev), alpha) > 0

\* Watch's goroutine as NewTxController leaves it: started, not yet run.
NoWatch ==
  [pc |-> "idle", ctxErr |-> ErrNil, ret |-> "-", firstErr |-> "-",
   got |-> NoNetDevLine, ratePrev |-> Float64Zero, prevTxBytes |-> 0, tickPrev |-> 0,
   build |-> [fma |-> "none", sat |-> FALSE],
   tickNow |-> 0, reads |-> 0, ticks |-> 0, late |-> 0]

\* ------------------------------------------------------- chanio.ReadOnce
io_EOF == "EOF"
ErrRead == "read: connection closed"

\* The io.Reader handed to ReadOnce: the bytes it holds, whether more may
\* come (a Read of an empty reader then blocks), and whether it is broken.
ReaderSources ==
  {[buf |-> b, open |-> o, broken |-> k] :
     b \in {<<>>, <<"m">>, <<"m", "e">>}, o \in BOOLEAN, k \in BOOLEAN}

\* r.Read(b) on a source: bytes read, error, and the source afterwards. A
\* Read with a buffer of `size` bytes takes that many bytes at most.
Read(src, size) ==
  IF src.broken THEN [n |-> 0, err |-> ErrRead, src |-> src]
  ELSE IF src.buf = <<>> THEN [n |-> 0, err |-> io_EOF, src |-> src]
  ELSE LET n == IF Len(src.buf) < size THEN Len(src.buf) ELSE size
       IN [n |-> n, err |-> ErrNil, src |-> [src EXCEPT !.buf = SubSeq(@, n + 1, Len(@))]]

\* A call of ReadOnce that has not been made.
NoReader(src) ==
  [pc |-> "idle", src |-> src, ch |-> "none", size |-> 0, n |-> 0, err |-> "-",
   reads |-> 0, closes |-> 0, recv |-> "-"]
NoReaders == [i \in Req |-> NoReader([buf |-> <<>>, open |-> FALSE, broken |-> FALSE])]

\* ------------------------------------- TokenController.Limit, per request
\* What a request brings: an access_token form value, or none.
NoToken == [given |-> FALSE, token |-> BadToken]
LimitKeys == <<JWK("112", "pair1", "ES256", TRUE), JWK("113", "pair2", "ES256", TRUE)>>
LimitClaims ==
  {[iss |-> "issuer", aud |-> <<"mlab1">>, exp |-> <<0>>],
   [iss |-> "issuer", aud |-> <<"mlab1">>, exp |-> <<MaxTime>>],
   [iss |-> "other", aud |-> <<"mlab1">>, exp |-> <<MaxTime>>]}
LimitTokens ==
  {NoToken, [given |-> TRUE, token |-> BadToken],
   [given |-> TRUE,
    token |-> Sign(NewSigner(JWK("999", "pair2", "ES256", FALSE)),
                   [iss |-> "issuer", aud |-> <<"mlab1">>, exp |-> <<MaxTime>>])]} \cup
  {[given |-> TRUE, token |-> Sign(NewSigner(JWK("112", "pair1", "ES256", FALSE)), cl)] : cl \in LimitClaims}

\* The value of the claim key in a context: a verified claim, or nothing.
NoCtxClaim == [set |-> FALSE, cl |-> NoJwtClaims]
SetClaim(ctx, cl) == [set |-> TRUE, cl |-> cl]
GetClaim(ctx) == ctx

\* A request that has not arrived.
NoLimitReq ==
  [pc |-> "idle", rq |-> NoToken, ctx |-> NoCtxClaim, exp |-> NoExpected,
   copiedAt |-> 0, res |-> NoResult, out |-> NoCtxClaim, code |-> NoStatus,
   seen |-> NoCtxClaim]

\* No request has arrived; the controller's Expected is as NewTokenController
\* got it.
LimitInit ==
  /\ Expected = GoodExpected
  /\ treq = [r \in Req |-> NoLimitReq]

\* -------------------------------------------------------------------- Init
NoReq == [method |-> "", remoteAddr |-> "", claim |-> NoClaim]

\* The chain as main composes it, with no request in it and no ceiling set.
\* No Accept yet.
NoAccept == [called |-> FALSE, txNil |-> FALSE, l |-> [conn |-> FALSE, err |-> ErrNil],
             rate |-> Big(0), conn |-> FALSE, err |-> ErrNil, closed |-> 0]

CtlInit ==
  /\ Required = TRUE
  /\ gates = Setup(FALSE, GoodExpected, FALSE, "", TRUE, TRUE)
  /\ limit = 0
  /\ current = Big(0)
  /\ greq = NoGateReq
  /\ gpc = "idle"
  /\ gclaim = NoClaim
  /\ gcode = NoStatus
  /\ gtrace = <<>>
  /\ acc = NoAccept

\* The process before main runs, whatever the flags.
SvcInit ==
  /\ now = 0
  /\ mainpc = "init"
  /\ started = 0
  /\ policy = HostPolicy
  /\ chain = HostChain
  /\ origRules = <<>>
  /\ cur = 0
  /\ pc = [r \in Req |-> "idle"]
  /\ req = [r \in Req |-> NoReq]
  /\ remote = [r \in Req |-> NilIP]
  /\ deadline = [r \in Req |-> 0]
  /\ status = [r \in Req |-> NoStatus]
  /\ grantErr = [r \in Req |-> "-"]
  /\ revokeErr = [r \in Req |-> "-"]
  /\ calls = [r \in Req |-> <<>>]
  /\ hist = [r \in Req |-> <<>>]
  /\ conn = [r \in Req |-> "none"]
  /\ rd = [r \in Req |-> "none"]
  /\ ctxDone = [r \in Req |-> FALSE]

Init ==
  /\ requireTokens = TRUE
  /\ maxIPs \in 0..MaxMaxIPs
  /\ CtlInit
  /\ mgrLog = <<>>
  /\ TokInit
  /\ watch = NoWatch
  /\ reader = NoReaders
  /\ LimitInit
  /\ SvcInit


\* ------------------------------------------------------------------- main
Alive == mainpc \in {"serving", "cancelled", "closed", "stopped"}

\* main calls IPManager.Start, which runs iptables-save and waits for it.
\* saveOK: it exits 0. On an error Start returns it and rtx.Must ends the
\* process; otherwise what it printed is kept as origRules.
MainStart(saveOK) ==
  /\ requireTokens
  /\ mainpc = "init"
  /\ IF saveOK
       THEN /\ origRules' = <<Snapshot(policy, chain)>>
            /\ mainpc' = "script"
       ELSE /\ mainpc' = "fatal"
            /\ UNCHANGED origRules
  /\ UNCHANGED <<cfgvars, now, started, policy, chain, cur, reqvars>>

\* main calls NullManager.Start: nothing is saved or written.
MainStartNull ==
  /\ ~requireTokens
  /\ mainpc = "init"
  /\ mainpc' = "listen"
  /\ UNCHANGED <<cfgvars, now, started, fwvars, cur, reqvars>>

\* pipe.Run runs the next command of Start's script, a process of its own,
\* and waits for it. ok: it exits 0 and has changed the ruleset. The script
\* stops at the first command that fails, Start returns the error and
\* rtx.Must ends the process; after the last command Start returns nil.
MainCommand(ok) ==
  /\ mainpc = "script"
  /\ LET cmds == StartCommands(listenPort, manageDevice)
         rs == RunCommand(cmds[started + 1], Snapshot(policy, chain))
     IN IF ok
          THEN /\ policy' = rs.policy
               /\ chain' = rs.chain
               /\ started' = started + 1
               /\ mainpc' = IF started + 1 = Len(cmds) THEN "listen" ELSE "script"
          ELSE /\ mainpc' = "fatal"
               /\ UNCHANGED <<policy, chain, started>>
  /\ UNCHANGED <<cfgvars, now, origRules, cur, reqvars>>

\* httpx.ListenAndServeAsync or ListenAndServeTLSAsync. ok: the listener is
\* bound and serving; otherwise rtx.Must ends the process through log.Fatal,
\* the deferred mgr.Stop() does not run and the ruleset stays as Start left
\* it.
MainListen(ok) ==
  /\ mainpc = "listen"
  /\ mainpc' = IF ok THEN "serving" ELSE "fatal"
  /\ UNCHANGED <<cfgvars, now, started, fwvars, cur, reqvars>>

\* mainCancel(): mainCtx is cancelled and <-mainCtx.Done() returns. Only the
\* tests call it.
MainCancel ==
  /\ mainpc = "serving"
  /\ mainpc' = "cancelled"
  /\ UNCHANGED started
  /\ UNCHANGED <<cfgvars, now, fwvars, cur, reqvars>>

\* The deferred srv.Close() runs: the listener stops accepting. Hijacked
\* connections are not known to the server and are left alone.
MainSrvClose ==
  /\ mainpc = "cancelled"
  /\ mainpc' = "closed"
  /\ UNCHANGED started
  /\ UNCHANGED <<cfgvars, now, fwvars, cur, reqvars>>

\* IPManager.Stop. Without a saved ruleset it returns an error and runs
\* nothing. Otherwise it runs the script pipe.Script(pipe.Read(b),
\* pipe.Exec(iptablesRestore)) and returns what pipe.Output collected. The
\* entries of a script run one after the other on the script's own standard
\* input and output: pipe.Read copies the saved ruleset to the output and
\* iptables-restore then runs with nothing on its standard input, so the
\* ruleset in force stays as it is. restoreOK: iptables-restore exits 0;
\* printed: what it prints. The value gives the error returned, whether the
\* utility ran, what it read on its standard input and the bytes returned:
\* the saved ruleset followed by what the utility printed.
Stop(restoreOK, printed) ==
  IF origRules = <<>>
    THEN [err |-> "cannot restore uninitialized rules", ran |-> FALSE,
          stdin |-> <<>>, b |-> <<>>]
  ELSE [err |-> IF restoreOK THEN ErrNil ELSE ErrTool, ran |-> TRUE,
        stdin |-> <<>>, b |-> origRules \o printed]

\* The deferred mgr.Stop() runs; main discards what it returns. Neither
\* IPManager.Stop nor NullManager.Stop changes the ruleset in force.
MainStop ==
  /\ mainpc = "closed"
  /\ mainpc' = "stopped"
  /\ UNCHANGED started
  /\ UNCHANGED <<cfgvars, now, fwvars, cur, reqvars>>

\* main returns: the process and every goroutine in it end.
MainExit ==
  /\ mainpc = "stopped"
  /\ mainpc' = "exited"
  /\ UNCHANGED started
  /\ UNCHANGED <<cfgvars, now, fwvars, cur, reqvars>>

\* Time passes.
Tick ==
  /\ now < MaxTime
  /\ now' = now + 1
  /\ UNCHANGED <<cfgvars, mainvars, fwvars, cur, reqvars>>

\* ----------------------------------------------------------- AllowRequest
\* AllowRequest up to the call of Grant: method, remote address, deadline.
\* The server cancels the context of a request when its handler returns or
\* panics.
HandlerEnds(r) == [ctxDone EXCEPT ![r] = TRUE]

AllowRequestSteps(r, m, ra, cl) ==
  /\ mainpc \in {"serving", "cancelled"}
  /\ pc[r] = "idle"
  /\ \A q \in Req : q < r => pc[q] # "idle"
  /\ now + Timeout <= MaxTime
  /\ req' = [req EXCEPT ![r] = [method |-> m, remoteAddr |-> ra, claim |-> cl]]
  /\ LET hp == SplitHostPort(ra)
         d == getDeadline(cl, now, now)
     IN IF m # "GET"
          THEN /\ status' = [status EXCEPT ![r] = StatusMethodNotAllowed]
               /\ pc' = [pc EXCEPT ![r] = "done"]
               /\ ctxDone' = HandlerEnds(r)
               /\ UNCHANGED <<remote, deadline>>
        ELSE IF hp.err # ErrNil
          THEN /\ status' = [status EXCEPT ![r] = StatusBadRequest]
               /\ pc' = [pc EXCEPT ![r] = "done"]
               /\ ctxDone' = HandlerEnds(r)
               /\ UNCHANGED <<remote, deadline>>
        ELSE IF d.err # ErrNil
          THEN /\ status' = [status EXCEPT ![r] = StatusBadRequest]
               /\ pc' = [pc EXCEPT ![r] = "done"]
               /\ ctxDone' = HandlerEnds(r)
               /\ UNCHANGED <<remote, deadline>>
        ELSE /\ remote' = [remote EXCEPT ![r] = ParseIP(hp.host)]
             /\ deadline' = [deadline EXCEPT ![r] = d.t]
             /\ pc' = [pc EXCEPT ![r] = "grant"]
             /\ UNCHANGED <<status, ctxDone>>
  /\ UNCHANGED <<now, mainvars, fwvars, cur, grantErr, revokeErr, calls, hist, conn, rd>>

\* AllowRequest as the only handler: the gates and controllers are not involved.
AllowRequest(r, m, ra, cl) ==
  /\ AllowRequestSteps(r, m, ra, cl)
  /\ UNCHANGED cfgvars

Call(op, ip) == [op |-> op, ip |-> ip]

\* TryAcquire with the capacity test off by one.
TryAcquire_OffByOne(c, size) == size - c >= 0

\* semaphore.Weighted.TryAcquire(1).
TryAcquire(c, size) == size - c >= 1

\* Grant that runs the insert before it looks at the budget.
GrantAcquire_InsertFirst(r) ==
  /\ Alive /\ requireTokens
  /\ pc[r] = "grant"
  /\ calls' = [calls EXCEPT ![r] = Append(@, Call("Grant", remote[r]))]
  /\ chain' = ToolApply(ipTable("insert", remote[r]), chain)
  /\ IF TryAcquire(cur, maxIPs)
       THEN /\ cur' = cur + 1
            /\ hist' = [hist EXCEPT ![r] = <<"reserve", "insert">>]
            /\ grantErr' = [grantErr EXCEPT ![r] = ErrNil]
            /\ pc' = [pc EXCEPT ![r] = "setup"]
            /\ UNCHANGED <<status, ctxDone>>
       ELSE /\ grantErr' = [grantErr EXCEPT ![r] = ErrMaxConcurrent]
            /\ status' = [status EXCEPT ![r] = StatusServiceUnavailable]
            /\ pc' = [pc EXCEPT ![r] = "done"]
            /\ ctxDone' = HandlerEnds(r)
            /\ UNCHANGED <<cur, hist>>
  /\ UNCHANGED <<cfgvars, now, mainvars, policy, origRules, req, remote, deadline,
                 revokeErr, conn, rd>>

\* AllowRequest whose switch answers 500 to every error of Grant.
GrantAcquire_AnyErrorIs500(r) ==
  /\ Alive /\ requireTokens
  /\ pc[r] = "grant"
  /\ calls' = [calls EXCEPT ![r] = Append(@, Call("Grant", remote[r]))]
  /\ IF TryAcquire(cur, maxIPs)
       THEN /\ cur' = cur + 1
            /\ hist' = [hist EXCEPT ![r] = Append(@, "reserve")]
            /\ pc' = [pc EXCEPT ![r] = "grant_exec"]
            /\ UNCHANGED <<grantErr, status, ctxDone>>
       ELSE /\ grantErr' = [grantErr EXCEPT ![r] = ErrMaxConcurrent]
            /\ status' = [status EXCEPT ![r] = StatusInternalServerError]
            /\ pc' = [pc EXCEPT ![r] = "done"]
            /\ ctxDone' = HandlerEnds(r)
            /\ UNCHANGED <<cur, hist>>
  /\ UNCHANGED <<cfgvars, now, mainvars, fwvars, req, remote, deadline,
                 revokeErr, conn, rd>>

\* Grant, first step: TryAcquire; on failure Grant returns ErrMaxConcurrent
\* and AllowRequest answers 503.
GrantAcquire(r) ==
  /\ Alive /\ requireTokens
  /\ pc[r] = "grant"
  /\ calls' = [calls EXCEPT ![r] = Append(@, Call("Grant", remote[r]))]
  /\ IF TryAcquire(cur, maxIPs)
       THEN /\ cur' = cur + 1
            /\ hist' = [hist EXCEPT ![r] = Append(@, "reserve")]
            /\ pc' = [pc EXCEPT ![r] = "grant_exec"]
            /\ UNCHANGED <<grantErr, status, ctxDone>>
       ELSE /\ grantErr' = [grantErr EXCEPT ![r] = ErrMaxConcurrent]
            /\ status' = [status EXCEPT ![r] = StatusServiceUnavailable]
            /\ pc' = [pc EXCEPT ![r] = "done"]
            /\ ctxDone' = HandlerEnds(r)
            /\ UNCHANGED <<cur, hist>>
  /\ UNCHANGED <<cfgvars, now, mainvars, fwvars, req, remote, deadline,
                 revokeErr, conn, rd>>

\* Grant that releases its unit on the way out whatever the tool returned.
GrantExec_DeferRelease(r, ok) ==
  /\ Alive /\ requireTokens
  /\ pc[r] = "grant_exec"
  /\ LET e == ipTable("insert", remote[r])
     IN /\ ok => ToolCanRun(e, chain)
        /\ IF ok
             THEN /\ chain' = ToolApply(e, chain)
                  /\ cur' = cur - 1
                  /\ hist' = [hist EXCEPT ![r] = Append(Append(@, "insert"), "release")]
                  /\ grantErr' = [grantErr EXCEPT ![r] = ErrNil]
                  /\ pc' = [pc EXCEPT ![r] = "setup"]
             ELSE /\ hist' = [hist EXCEPT ![r] = Append(@, "insert_err")]
                  /\ pc' = [pc EXCEPT ![r] = "grant_release"]
                  /\ UNCHANGED <<chain, grantErr, cur>>
  /\ UNCHANGED <<cfgvars, now, mainvars, policy, origRules, req, remote,
                 deadline, status, revokeErr, calls, conn, rd, ctxDone>>

\* Grant that appends its rule to the chain.
GrantExec_Append(r, ok) ==
  /\ Alive /\ requireTokens
  /\ pc[r] = "grant_exec"
  /\ LET e == ipTable("append", remote[r])
     IN /\ ok => ValidSource(e.rule)
        /\ IF ok
             THEN /\ chain' = ToolApply(e, chain)
                  /\ hist' = [hist EXCEPT ![r] = Append(@, "insert")]
                  /\ grantErr' = [grantErr EXCEPT ![r] = ErrNil]
                  /\ pc' = [pc EXCEPT ![r] = "setup"]
             ELSE /\ hist' = [hist EXCEPT ![r] = Append(@, "insert_err")]
                  /\ pc' = [pc EXCEPT ![r] = "grant_release"]
                  /\ UNCHANGED <<chain, grantErr>>
  /\ UNCHANGED <<cfgvars, now, mainvars, policy, origRules, cur, req, remote,
                 deadline, status, revokeErr, calls, conn, rd, ctxDone>>

\* Grant, second step: the insert command runs; ok is the tool's exit.
GrantExec(r, ok) ==
  /\ Alive /\ requireTokens
  /\ pc[r] = "grant_exec"
  /\ LET e == ipTable("insert", remote[r])
     IN /\ ok => ToolCanRun(e, chain)
        /\ IF ok
             THEN /\ chain' = ToolApply(e, chain)
                  /\ hist' = [hist EXCEPT ![r] = Append(@, "insert")]
                  /\ grantErr' = [grantErr EXCEPT ![r] = ErrNil]
                  /\ pc' = [pc EXCEPT ![r] = "setup"]
             ELSE /\ hist' = [hist EXCEPT ![r] = Append(@, "insert_err")]
                  /\ pc' = [pc EXCEPT ![r] = "grant_release"]
                  /\ UNCHANGED <<chain, grantErr>>
  /\ UNCHANGED <<cfgvars, now, mainvars, policy, origRules, cur, req, remote,
                 deadline, status, revokeErr, calls, conn, rd, ctxDone>>

\* Grant that returns the tool's error without releasing its unit.
GrantRelease_NoRelease(r) ==
  /\ Alive /\ requireTokens
  /\ pc[r] = "grant_release"
  /\ grantErr' = [grantErr EXCEPT ![r] = ErrTool]
  /\ status' = [status EXCEPT ![r] = StatusInternalServerError]
  /\ pc' = [pc EXCEPT ![r] = "done"]
  /\ ctxDone' = HandlerEnds(r)
  /\ UNCHANGED <<cfgvars, now, mainvars, fwvars, cur, hist, req, remote, deadline,
                 revokeErr, calls, conn, rd>>

\* Grant, last step after a failed insert: Release(1), return the error;
\* AllowRequest answers 500.
GrantRelease(r) ==
  /\ Alive /\ requireTokens
  /\ pc[r] = "grant_release"
  /\ cur' = cur - 1
  /\ hist' = [hist EXCEPT ![r] = Append(@, "release")]
  /\ grantErr' = [grantErr EXCEPT ![r] = ErrTool]
  /\ status' = [status EXCEPT ![r] = StatusInternalServerError]
  /\ pc' = [pc EXCEPT ![r] = "done"]
  /\ ctxDone' = HandlerEnds(r)
  /\ UNCHANGED <<cfgvars, now, mainvars, fwvars, req, remote, deadline,
                 revokeErr, calls, conn, rd>>

\* NullManager.Grant: succeeds and does nothing.
GrantNull(r) ==
  /\ Alive /\ ~requireTokens
  /\ pc[r] = "grant"
  /\ calls' = [calls EXCEPT ![r] = Append(@, Call("Grant", remote[r]))]
  /\ grantErr' = [grantErr EXCEPT ![r] = ErrNil]
  /\ pc' = [pc EXCEPT ![r] = "setup"]
  /\ UNCHANGED <<cfgvars, now, mainvars, fwvars, cur, req, remote, deadline,
                 status, revokeErr, hist, conn, rd, ctxDone>>

\* What websocket.Upgrader.Upgrade answers: 101 when the handshake
\* succeeds; when it fails the upgrader writes the error response itself,
\* 400 for a request that is not a websocket handshake. The WriteHeader(500)
\* of setupConn comes after that response and has no effect. The handler
\* does not look at the status the upgrader wrote, so its other refusals
\* (403, 500) go the same way as the 400.
UpgradeCodes == {StatusSwitchingProtocols, StatusBadRequest}

\* AllowRequest that returns after a failed upgrade without calling Revoke.
SetupConn_NoRevoke(r, code) ==
  /\ Alive
  /\ pc[r] = "setup"
  /\ status' = [status EXCEPT ![r] = code]
  /\ IF code = StatusSwitchingProtocols
       THEN /\ conn' = [conn EXCEPT ![r] = "open"]
            /\ pc' = [pc EXCEPT ![r] = "wait_begin"]
            /\ UNCHANGED ctxDone
       ELSE /\ pc' = [pc EXCEPT ![r] = "done"]
            /\ ctxDone' = HandlerEnds(r)
            /\ UNCHANGED conn
  /\ UNCHANGED <<cfgvars, now, mainvars, fwvars, cur, req, remote, deadline,
                 grantErr, revokeErr, calls, hist, rd>>

\* setupConn: the websocket upgrade. On failure the response already has
\* the upgrader's status, AllowRequest's WriteHeader(500) changes nothing,
\* and the handler goes on to Revoke.
SetupConn(r, code) ==
  /\ Alive
  /\ pc[r] = "setup"
  /\ status' = [status EXCEPT ![r] = code]
  /\ IF code = StatusSwitchingProtocols
       THEN /\ conn' = [conn EXCEPT ![r] = "open"]
            /\ pc' = [pc EXCEPT ![r] = "wait_begin"]
       ELSE /\ pc' = [pc EXCEPT ![r] = "revoke"]
            /\ UNCHANGED conn
  /\ UNCHANGED <<cfgvars, now, mainvars, fwvars, cur, req, remote, deadline,
                 grantErr, revokeErr, calls, hist, rd, ctxDone>>

\* wait, up to the select: deadlines are set and ReadOnce starts its read.
WaitBegin(r) ==
  /\ Alive
  /\ pc[r] = "wait_begin"
  /\ rd' = [rd EXCEPT ![r] = "reading"]
  /\ hist' = [hist EXCEPT ![r] = Append(@, "wait")]
  /\ pc' = [pc EXCEPT ![r] = "wait"]
  /\ UNCHANGED <<cfgvars, now, mainvars, fwvars, cur, req, remote, deadline,
                 status, grantErr, revokeErr, calls, conn, ctxDone>>

\* ReadOnce's goroutine: r.Read returns (the client sent a byte or closed,
\* the read deadline passed, or the connection was closed locally) and the
\* channel is closed.
ReadOnce(r) ==
  /\ Alive
  /\ rd[r] = "reading"
  /\ rd' = [rd EXCEPT ![r] = "closed"]
  /\ UNCHANGED <<cfgvars, now, mainvars, fwvars, cur, pc, req, remote, deadline,
                 status, grantErr, revokeErr, calls, hist, conn, ctxDone>>

\* The request's context is cancelled while the handler waits.
CtxCancel(r) ==
  /\ Alive
  /\ pc[r] = "wait"
  /\ ~ctxDone[r]
  /\ ctxDone' = [ctxDone EXCEPT ![r] = TRUE]
  /\ UNCHANGED <<cfgvars, now, mainvars, fwvars, cur, pc, req, remote, deadline,
                 status, grantErr, revokeErr, calls, hist, conn, rd>>

\* The select without the deadline case.
WaitReady_NoDeadline(r) == ctxDone[r] \/ rd[r] = "closed"

\* What the select in wait is blocked on.
WaitReady(r) == ctxDone[r] \/ now >= deadline[r] \/ rd[r] = "closed"

\* wait without the deferred c.Close().
WaitReturn_NoClose(r) ==
  /\ Alive
  /\ pc[r] = "wait"
  /\ WaitReady(r)
  /\ pc' = [pc EXCEPT ![r] = "revoke"]
  /\ UNCHANGED <<cfgvars, now, mainvars, fwvars, cur, req, remote, deadline,
                 status, grantErr, revokeErr, calls, hist, conn, rd, ctxDone>>

\* wait that closes the connection only in the select's read case.
WaitReturn_CloseOnRead(r) ==
  /\ Alive
  /\ pc[r] = "wait"
  /\ WaitReady(r)
  /\ conn' = [conn EXCEPT ![r] = IF rd[r] = "closed" THEN "closed" ELSE @]
  /\ hist' = [hist EXCEPT ![r] = Append(@, "close")]
  /\ pc' = [pc EXCEPT ![r] = "revoke"]
  /\ UNCHANGED <<cfgvars, now, mainvars, fwvars, cur, req, remote, deadline,
                 status, grantErr, revokeErr, calls, rd, ctxDone>>

\* wait returns: the select fired and the deferred c.Close() ran.
WaitReturn(r) ==
  /\ Alive
  /\ pc[r] = "wait"
  /\ WaitReady(r)
  /\ conn' = [conn EXCEPT ![r] = "closed"]
  /\ hist' = [hist EXCEPT ![r] = Append(@, "close")]
  /\ pc' = [pc EXCEPT ![r] = "revoke"]
  /\ UNCHANGED <<cfgvars, now, mainvars, fwvars, cur, req, remote, deadline,
                 status, grantErr, revokeErr, calls, rd, ctxDone>>

\* Revoke that releases its unit whether or not the delete succeeded.
RevokeExec_ReleaseOnError(r, ok) ==
  /\ Alive /\ requireTokens
  /\ pc[r] = "revoke"
  /\ calls' = [calls EXCEPT ![r] = Append(@, Call("Revoke", remote[r]))]
  /\ LET e == ipTable("delete", remote[r])
     IN /\ ok => ToolCanRun(e, chain)
        /\ IF ok
             THEN /\ chain' = ToolApply(e, chain)
                  /\ hist' = [hist EXCEPT ![r] = Append(@, "delete")]
                  /\ pc' = [pc EXCEPT ![r] = "revoke_release"]
                  /\ UNCHANGED <<revokeErr, ctxDone, cur>>
             ELSE /\ hist' = [hist EXCEPT ![r] = Append(Append(@, "delete_err"), "release")]
                  /\ cur' = cur - 1
                  /\ revokeErr' = [revokeErr EXCEPT ![r] = ErrTool]
                  /\ pc' = [pc EXCEPT ![r] = "panicked"]
                  /\ ctxDone' = HandlerEnds(r)
                  /\ UNCHANGED chain
  /\ UNCHANGED <<cfgvars, now, mainvars, policy, origRules, req, remote,
                 deadline, status, grantErr, conn, rd>>

\* Revoke that leaves the rule in the chain when the delete command ran with
\* success, and goes on to release its unit.
RevokeExec_SkipDelete(r, ok) ==
  /\ Alive /\ requireTokens
  /\ pc[r] = "revoke"
  /\ calls' = [calls EXCEPT ![r] = Append(@, Call("Revoke", remote[r]))]
  /\ LET e == ipTable("delete", remote[r])
     IN /\ ok => ToolCanRun(e, chain)
        /\ IF ok
             THEN /\ hist' = [hist EXCEPT ![r] = Append(@, "delete")]
                  /\ pc' = [pc EXCEPT ![r] = "revoke_release"]
                  /\ UNCHANGED <<chain, revokeErr, ctxDone>>
             ELSE /\ hist' = [hist EXCEPT ![r] = Append(@, "delete_err")]
                  /\ revokeErr' = [revokeErr EXCEPT ![r] = ErrTool]
                  /\ pc' = [pc EXCEPT ![r] = "panicked"]
                  /\ ctxDone' = HandlerEnds(r)
                  /\ UNCHANGED chain
  /\ UNCHANGED <<cfgvars, now, mainvars, policy, origRules, cur, req, remote,
                 deadline, status, grantErr, conn, rd>>

\* Revoke, first step: the delete command runs; ok is the tool's exit. On an
\* error Revoke returns it and rtx.PanicOnError panics in the handler.
RevokeExec(r, ok) ==
  /\ Alive /\ requireTokens
  /\ pc[r] = "revoke"
  /\ calls' = [calls EXCEPT ![r] = Append(@, Call("Revoke", remote[r]))]
  /\ LET e == ipTable("delete", remote[r])
     IN /\ ok => ToolCanRun(e, chain)
        /\ IF ok
             THEN /\ chain' = ToolApply(e, chain)
                  /\ hist' = [hist EXCEPT ![r] = Append(@, "delete")]
                  /\ pc' = [pc EXCEPT ![r] = "revoke_release"]
                  /\ UNCHANGED <<revokeErr, ctxDone>>
             ELSE /\ hist' = [hist EXCEPT ![r] = Append(@, "delete_err")]
                  /\ revokeErr' = [revokeErr EXCEPT ![r] = ErrTool]
                  /\ pc' = [pc EXCEPT ![r] = "panicked"]
                  /\ ctxDone' = HandlerEnds(r)
                  /\ UNCHANGED chain
  /\ UNCHANGED <<cfgvars, now, mainvars, policy, origRules, cur, req, remote,
                 deadline, status, grantErr, conn, rd>>

\* Revoke that returns nil without releasing its unit.
RevokeRelease_NoRelease(r) ==
  /\ Alive /\ requireTokens
  /\ pc[r] = "revoke_release"
  /\ hist' = [hist EXCEPT ![r] = Append(@, "release")]
  /\ revokeErr' = [revokeErr EXCEPT ![r] = ErrNil]
  /\ pc' = [pc EXCEPT ![r] = "done"]
  /\ ctxDone' = HandlerEnds(r)
  /\ UNCHANGED <<cfgvars, now, mainvars, fwvars, cur, req, remote, deadline,
                 status, grantErr, calls, conn, rd>>

\* Revoke, last step after a successful delete: Release(1), return nil.
\* semaphore.Release panics when more is released than is held.
RevokeRelease(r) ==
  /\ Alive /\ requireTokens
  /\ pc[r] = "revoke_release"
  /\ cur' = cur - 1
  /\ hist' = [hist EXCEPT ![r] = Append(@, "release")]
  /\ revokeErr' = [revokeErr EXCEPT ![r] = ErrNil]
  /\ pc' = [pc EXCEPT ![r] = IF cur - 1 < 0 THEN "panicked" ELSE "done"]
  /\ ctxDone' = HandlerEnds(r)
  /\ UNCHANGED <<cfgvars, now, mainvars, fwvars, req, remote, deadline,
                 status, grantErr, calls, conn, rd>>

\* NullManager.Revoke: succeeds and does nothing.
RevokeNull(r) ==
  /\ Alive /\ ~requireTokens
  /\ pc[r] = "revoke"
  /\ calls' = [calls EXCEPT ![r] = Append(@, Call("Revoke", remote[r]))]
  /\ revokeErr' = [revokeErr EXCEPT ![r] = ErrNil]
  /\ pc' = [pc EXCEPT ![r] = "done"]
  /\ ctxDone' = HandlerEnds(r)
  /\ UNCHANGED <<cfgvars, now, mainvars, fwvars, cur, req, remote, deadline,
                 status, grantErr, hist, conn, rd>>

\* -------------------------------------------------- the admission chain
\* The state of the envelope service, which the gates leave alone.
svcvars == <<requireTokens, maxIPs, now, mainvars, fwvars, cur, reqvars>>

\* A request enters the chain built by Setup.
GateArrive(rq) ==
  /\ gpc \in {"idle", "done"}
  /\ greq' = rq
  /\ gpc' = First
  /\ gclaim' = NoClaim
  /\ gcode' = NoStatus
  /\ gtrace' = <<>>
  /\ UNCHANGED <<svcvars, apivars, tokvars, watch, reader, Expected, treq, acc, Required, gates, limit, current>>

\* TokenController.Limit: 401, or the next handler with isVerified's context.
TokenLimit ==
  /\ gpc = "token"
  /\ LET v == isVerified(greq)
         seen == IF v.called THEN <<"token", "verify">> ELSE <<"token">>
     IN /\ gtrace' = gtrace \o seen
        /\ IF ~v.verified
             THEN /\ gcode' = StatusUnauthorized
                  /\ gpc' = "done"
                  /\ UNCHANGED gclaim
             ELSE /\ gclaim' = IF v.claim.present THEN v.claim ELSE gclaim
                  /\ gpc' = After("token")
                  /\ UNCHANGED gcode
  /\ UNCHANGED <<svcvars, apivars, tokvars, watch, reader, Expected, treq, acc, Required, gates, limit, current, greq>>

\* TxController.Limit: 503, or the next handler.
TxLimit ==
  /\ gpc = "tx"
  /\ gtrace' = Append(gtrace, "tx")
  /\ IF isLimited(IsMonitoring(gclaim), greq.path \in Enforced)
       THEN /\ gcode' = StatusServiceUnavailable
            /\ gpc' = "done"
       ELSE /\ gpc' = After("tx")
            /\ UNCHANGED gcode
  /\ UNCHANGED <<svcvars, apivars, tokvars, watch, reader, Expected, treq, acc, Required, gates, limit, current, greq, gclaim>>

\* The handler the chain wraps runs and answers.
NextHandler ==
  /\ gpc = "next"
  /\ gtrace' = Append(gtrace, "next")
  /\ gcode' = StatusOK
  /\ gpc' = "done"
  /\ UNCHANGED <<svcvars, apivars, tokvars, watch, reader, Expected, treq, acc, Required, gates, limit, current, greq, gclaim>>

\* TxController.set, as the Watch goroutine that NewTxController started
\* calls it: there is one only when the constructor succeeded, and it
\* returns at once when no ceiling is set. The value is any the goroutine
\* may publish.
set(value) ==
  /\ \E i \in DOMAIN gates : gates[i] = "tx"
  /\ limit # 0
  /\ current' = Big(value)
  /\ UNCHANGED <<svcvars, apivars, tokvars, watch, reader, Expected, treq, acc, Required, gates, limit, greq, gpc, gclaim, gcode, gtrace>>

\* A chain composed by Setup from any verifier and device, around
\* controllers with any Required, ceiling and rate.
\* What a listener's Accept returns: a connection, an error, or (as the
\* listener of the tests does) both.
ErrAccept == "this is a fake accept error"
ErrRejected == "TxController rejected connection"
ListenerResults ==
  {[conn |-> TRUE, err |-> ErrNil], [conn |-> FALSE, err |-> ErrAccept],
   [conn |-> TRUE, err |-> ErrAccept]}

\* Accept that returns its error for a limited controller and leaves the
\* accepted connection open.
Accept_NoClose(l) ==
  /\ LET txNil == ~\E i \in DOMAIN gates : gates[i] = "tx"
         res == IF txNil THEN [conn |-> l.conn, err |-> l.err, closed |-> 0]
                ELSE IF l.err # ErrNil THEN [conn |-> FALSE, err |-> l.err, closed |-> 0]
                ELSE IF isLimited(FALSE, TRUE)
                  THEN [conn |-> FALSE, err |-> ErrRejected, closed |-> 0]
                ELSE [conn |-> TRUE, err |-> ErrNil, closed |-> 0]
     IN acc' = [called |-> TRUE, txNil |-> txNil, l |-> l, rate |-> current,
                conn |-> res.conn, err |-> res.err, closed |-> res.closed]
  /\ UNCHANGED <<svcvars, apivars, tokvars, watch, reader, Expected, treq, Required, gates, limit, current, greq, gpc,
                 gclaim, gcode, gtrace>>

\* TxController.Accept on the controller Setup returned, nil when the chain
\* has no rate gate. l: what the listener's Accept returns. closed counts the
\* calls of Close on the accepted connection.
Accept(l) ==
  /\ LET txNil == ~\E i \in DOMAIN gates : gates[i] = "tx"
         res == IF txNil THEN [conn |-> l.conn, err |-> l.err, closed |-> 0]
                ELSE IF l.err # ErrNil THEN [conn |-> FALSE, err |-> l.err, closed |-> 0]
                ELSE IF isLimited(FALSE, TRUE)
                  THEN [conn |-> FALSE, err |-> ErrRejected, closed |-> 1]
                ELSE [conn |-> TRUE, err |-> ErrNil, closed |-> 0]
     IN acc' = [called |-> TRUE, txNil |-> txNil, l |-> l, rate |-> current,
                conn |-> res.conn, err |-> res.err, closed |-> res.closed]
  /\ UNCHANGED <<svcvars, apivars, tokvars, watch, reader, Expected, treq, Required, gates, limit, current, greq, gpc,
                 gclaim, gcode, gtrace>>

InitGates ==
  /\ requireTokens = TRUE
  /\ maxIPs = 1
  /\ SvcInit
  /\ mgrLog = <<>>
  /\ TokInit
  /\ watch = NoWatch
  /\ reader = NoReaders
  /\ LimitInit
  /\ Required \in BOOLEAN
  /\ \E verifierNil \in BOOLEAN, exp \in SetupExpecteds, enforcedNil \in BOOLEAN,
        dev \in Devices, procOK \in BOOLEAN, netDevOK \in BOOLEAN :
       gates = Setup(verifierNil, exp, enforcedNil, dev, procOK, netDevOK)
  /\ limit \in 0..MaxRate
  /\ current \in {Big(n) : n \in 0..(MaxRate + 1)}
  /\ greq = NoGateReq
  /\ gpc = "idle"
  /\ gclaim = NoClaim
  /\ gcode = NoStatus
  /\ gtrace = <<>>
  /\ acc = NoAccept

NextGates ==
  \/ \E rq \in GateReqs : GateArrive(rq)
  \/ TokenLimit
  \/ TxLimit
  \/ NextHandler
  \/ \E value \in 0..(MaxRate + 1) : set(value)
  \/ \E l \in ListenerResults : Accept(l)

SpecGates == InitGates /\ [][NextGates]_vars

\* ------------------------------------------------------------------- Next
\* The requests that arrive while sessions run side by side: a POST, and GETs
\* from one client with no claim or with a claim for this service that
\* expires at the end of the modelled time.
SessionInputs ==
  {[method |-> m, remoteAddr |-> "127.0.0.2:1234", claim |-> cl] :
     m \in Methods,
     cl \in {c \in Claims : c.present => (c.sub = subject /\ c.exp = MaxTime)}}

\* The steps of main up to serving, the clock and the sessions.
Serve ==
  \/ \E saveOK \in BOOLEAN : MainStart(saveOK)
  \/ \E ok \in BOOLEAN : MainCommand(ok)
  \/ \E ok \in BOOLEAN : MainListen(ok)
  \/ Tick
  \/ \E r \in Req, i \in SessionInputs : AllowRequest(r, i.method, i.remoteAddr, i.claim)
  \/ \E r \in Req : GrantAcquire(r)
  \/ \E r \in Req, ok \in BOOLEAN : GrantExec(r, ok)
  \/ \E r \in Req : GrantRelease(r)
  \/ \E r \in Req, code \in UpgradeCodes : SetupConn(r, code)
  \/ \E r \in Req : WaitBegin(r)
  \/ \E r \in Req : ReadOnce(r)
  \/ \E r \in Req : CtxCancel(r)
  \/ \E r \in Req : WaitReturn(r)
  \/ \E r \in Req, ok \in BOOLEAN : RevokeExec(r, ok)
  \/ \E r \in Req : RevokeRelease(r)

\* The service as deployed: main.go never cancels mainCtx, so main blocks in
\* <-mainCtx.Done() for as long as the process runs.
Next == Serve

Spec == Init /\ [][Next]_vars

\* The service with a shutdown: mainCancel() is called (as the tests do), the
\* deferred srv.Close() and mgr.Stop() run and main returns.
Shutdown ==
  \/ MainCancel
  \/ MainSrvClose
  \/ MainStop
  \/ MainExit

NextShutdown == Serve \/ Shutdown

SpecShutdown == Init /\ [][NextShutdown]_vars

\* ------------------------------------------- the IPManager called directly
\* What the restore utility may print: nothing, or a message.
RestoreOutputs == {<<>>, <<"sample-output-message">>}

\* A Start has been called on the manager and has not returned.
StartRunning == mgrLog # <<>> /\ mgrLog[Len(mgrLog)].err = "-"

\* The calls so far in which an external process failed: iptables-save, a
\* command of the script, or iptables-restore.
ToolFailures ==
  Cardinality({i \in DOMAIN mgrLog :
                 /\ mgrLog[i].err \notin {ErrNil, "-"}
                 /\ mgrLog[i].op = "Start" \/ mgrLog[i].ran})

\* Start that stores what iptables-save printed and goes on to the script
\* before it looks at the error of the save.
Start_SaveUnchecked(saveOK) ==
  /\ ~StartRunning
  /\ Len(mgrLog) < MaxCalls
  /\ saveOK \/ ToolFailures < MaxFaults
  /\ origRules' = <<Snapshot(policy, chain)>>
  /\ mgrLog' = Append(mgrLog,
       [op |-> "Start", saved |-> origRules, ran |-> FALSE, stdin |-> <<>>,
        printed |-> <<>>, out |-> <<>>,
        saveErr |-> IF saveOK THEN ErrNil ELSE ErrTool,
        issued |-> 0, script |-> <<>>, err |-> "-"])
  /\ UNCHANGED <<requireTokens, maxIPs, ctlvars, tokvars, watch, reader, Expected, treq,
                 now, mainvars, policy, chain, cur, reqvars>>

\* IPManager.Start is called on the manager: it runs iptables-save and waits
\* for it. saveOK: it exits 0. On an error Start returns it at once;
\* otherwise what was printed is kept as origRules and the script follows.
\* The entry records the saved ruleset Start found, the error of the save,
\* the commands of the script started so far and what Start returned, "-"
\* while it has not.
Start(saveOK) ==
  /\ ~StartRunning
  /\ Len(mgrLog) < MaxCalls
  /\ saveOK \/ ToolFailures < MaxFaults
  /\ LET entry == [op |-> "Start", saved |-> origRules, ran |-> FALSE,
                   stdin |-> <<>>, printed |-> <<>>, out |-> <<>>,
                   saveErr |-> ErrNil, issued |-> 0,
                   script |-> <<>>, err |-> "-"]
     IN IF ~saveOK
          THEN /\ mgrLog' = Append(mgrLog,
                    [entry EXCEPT !.saveErr = ErrTool, !.err = ErrTool])
               /\ UNCHANGED origRules
          ELSE /\ origRules' = <<Snapshot(policy, chain)>>
               /\ mgrLog' = Append(mgrLog, entry)
  /\ UNCHANGED <<requireTokens, maxIPs, ctlvars, tokvars, watch, reader, Expected, treq,
                 now, mainvars, policy, chain, cur, reqvars>>

\* pipe.Run runs the next command of the script of the Start that is under
\* way, a process of its own, and waits for it. ok: it exits 0 and has
\* changed the ruleset. The script stops at the first command that fails
\* and Start returns the error; after the last command Start returns nil.
StartCommand(ok) ==
  /\ StartRunning
  /\ ok \/ ToolFailures < MaxFaults
  /\ LET n == Len(mgrLog)
         e == mgrLog[n]
         cmds == StartCommands(listenPort, manageDevice)
         c == cmds[e.issued + 1]
         rs == RunCommand(c, Snapshot(policy, chain))
     IN /\ mgrLog' = [mgrLog EXCEPT ![n] =
             [e EXCEPT !.issued = e.issued + 1,
                       !.script = Append(e.script, c),
                       !.err = IF ~ok THEN ErrTool
                               ELSE IF e.issued + 1 = Len(cmds) THEN ErrNil
                               ELSE "-"]]
        /\ IF ok
             THEN policy' = rs.policy /\ chain' = rs.chain
             ELSE UNCHANGED <<policy, chain>>
  /\ UNCHANGED <<requireTokens, maxIPs, ctlvars, tokvars, watch, reader, Expected, treq,
                 now, mainvars, origRules, cur, reqvars>>

\* IPManager.Stop called on the manager, by the caller that called Start,
\* after Start has returned. restoreOK: iptables-restore exits
\* 0; printed: what it prints. The entry records the saved ruleset Stop
\* found, whether the restore utility ran, what the utility read on its
\* standard input and printed, and the bytes and the error Stop returned.
StopCall(restoreOK, printed) ==
  /\ ~StartRunning
  /\ Len(mgrLog) < MaxCalls
  /\ restoreOK \/ ToolFailures < MaxFaults
  /\ LET res == Stop(restoreOK, printed)
     IN mgrLog' = Append(mgrLog,
             [op |-> "Stop", saved |-> origRules, ran |-> res.ran,
              stdin |-> res.stdin,
              printed |-> IF res.ran THEN printed ELSE <<>>,
              out |-> res.b, saveErr |-> "-", issued |-> 0,
              script |-> <<>>,
              err |-> res.err])
  /\ UNCHANGED <<requireTokens, maxIPs, ctlvars, tokvars, watch, reader, Expected, treq, now, mainvars, fwvars, cur, reqvars>>

\* Another program changes the ruleset: it appends a rule to the chain.
HostAppend ==
  /\ Len(chain) < Len(HostChain) + 1
  /\ chain' = Append(chain, <<"--jump=DROP">>)
  /\ UNCHANGED <<cfgvars, now, mainvars, policy, origRules, cur, reqvars>>

InitManager ==
  /\ requireTokens = TRUE
  /\ maxIPs = 1
  /\ CtlInit
  /\ mgrLog = <<>>
  /\ TokInit
  /\ watch = NoWatch
  /\ reader = NoReaders
  /\ LimitInit
  /\ SvcInit

NextManager ==
  \/ \E saveOK \in BOOLEAN : Start(saveOK)
  \/ \E ok \in BOOLEAN : StartCommand(ok)
  \/ \E restoreOK \in BOOLEAN, printed \in RestoreOutputs :
       StopCall(restoreOK, printed)
  \/ HostAppend

SpecManager == InitManager /\ [][NextManager]_vars

\* ------------------------------------------------ package token, called
\* NewVerifier called with the keys at hand.
CallNewVerifier ==
  /\ verifier = NoVerifier
  /\ verifier' = NewVerifier(vkeys)
  /\ UNCHANGED <<ctlvars, apivars, watch, reader, Expected, treq, vkeys, tok, vres, svcvars>>

\* NewSigner with a private key, and Sign of some claims under it.
SignToken(key, cl) ==
  /\ tok = BadToken
  /\ vres = NoResult
  /\ NewSigner(key).err = NoErr
  /\ tok' = Sign(NewSigner(key), cl)
  /\ UNCHANGED <<ctlvars, apivars, watch, reader, Expected, treq, vkeys, verifier, vres, svcvars>>

\* What someone without the private key can make of a signed token: another
\* payload, another signature, another key id in the header.
Altered(t) ==
  ({[t EXCEPT !.payload.iss = <<"other">>], [t EXCEPT !.payload.exp = <<MaxTime>>],
    [t EXCEPT !.sig.mat = "forged"]}
   \cup {[t EXCEPT !.kid = k] : k \in {"112", "113"}}) \ {t}

\* The token is altered on its way to the verifier.
Tamper ==
  /\ tok.wellformed
  /\ tok.sig = Signature(tok.sig.mat, tok.alg, tok.kid, tok.payload)
  /\ vres = NoResult
  /\ \E t \in Altered(tok) : tok' = t
  /\ UNCHANGED <<ctlvars, apivars, watch, reader, Expected, treq, vkeys, verifier, vres, svcvars>>

\* Verifier.Verify of the token at hand against an expected pattern.
CallVerify(e) ==
  /\ ~verifier.nil
  /\ vres = NoResult
  /\ LET r == Verify(verifier, tok, e)
     IN vres' = [cl |-> r.cl, nil |-> r.nil, err |-> r.err, tried |-> r.tried, expected |-> e]
  /\ UNCHANGED <<ctlvars, apivars, watch, reader, Expected, treq, vkeys, verifier, tok, svcvars>>

InitToken ==
  /\ requireTokens = TRUE
  /\ maxIPs = 1
  /\ CtlInit
  /\ mgrLog = <<>>
  /\ vkeys \in VerifyKeySeqs
  /\ verifier = NoVerifier
  /\ tok = BadToken
  /\ vres = NoResult
  /\ watch = NoWatch
  /\ reader = NoReaders
  /\ LimitInit
  /\ SvcInit

NextToken ==
  \/ CallNewVerifier
  \/ \E key \in PrivateJWKs, cl \in JwtClaims : SignToken(key, cl)
  \/ Tamper
  \/ \E e \in Expecteds : CallVerify(e)

SpecToken == InitToken /\ [][NextToken]_vars

\* ------------------------------------------------ TxController.Watch, run
\* Everything but the Watch loop and the rate it publishes.
nonwatch == <<svcvars, apivars, tokvars, reader, Expected, treq, Required, gates, limit, greq, gpc, gclaim,
              gcode, gtrace, acc>>

\* The goroutine NewTxController started with `go tx.Watch(ctx)` begins to
\* run Watch: with no ceiling it returns nil at once.
WatchCall ==
  /\ watch.pc = "idle"
  /\ watch' = IF limit = 0
                THEN [watch EXCEPT !.pc = "returned", !.ret = ErrNil]
                ELSE [watch EXCEPT !.pc = "read"]
  /\ UNCHANGED <<nonwatch, current>>

\* The read before the loop: an error ends Watch; a reading initialises
\* ratePrev and prevTxBytes.
WatchFirstRead(v) ==
  /\ watch.pc = "read"
  /\ watch' = IF v.err # ErrNil
                THEN [watch EXCEPT !.pc = "returned", !.ret = v.err, !.firstErr = v.err]
                ELSE [watch EXCEPT !.pc = "first_tick", !.firstErr = v.err,
                                   !.ratePrev = Float64Zero, !.prevTxBytes = v.TxBytes]
  /\ UNCHANGED <<nonwatch, current>>

\* The context of Watch is cancelled or times out.
WatchCtxDone(e) ==
  /\ watch.ctxErr = ErrNil
  /\ watch' = [watch EXCEPT !.ctxErr = e]
  /\ UNCHANGED <<nonwatch, current>>

\* Watch receives from the ticker, d units after the tick before: the first
\* receive sets tickPrev one period back. A tick can always arrive once the
\* context is done.
WatchTick(d) ==
  /\ watch.pc \in {"first_tick", "tick"}
  /\ watch.tickNow + d <= MaxTick \/ (watch.ctxErr # ErrNil /\ d = 1)
  /\ watch' = [watch EXCEPT
       !.pc = "cond",
       !.tickNow = @ + d,
       !.tickPrev = IF watch.pc = "first_tick" THEN watch.tickNow + d - Period ELSE @,
       !.ticks = @ + 1,
       !.late = IF watch.ctxErr # ErrNil THEN @ + 1 ELSE @]
  /\ UNCHANGED <<nonwatch, current>>

\* The loop condition of a Watch that returns nil when the context is done.
WatchCond_ReturnNil ==
  /\ watch.pc = "cond"
  /\ watch' = IF watch.ctxErr = ErrNil
                THEN [watch EXCEPT !.pc = "body"]
                ELSE [watch EXCEPT !.pc = "returned", !.ret = ErrNil]
  /\ UNCHANGED <<nonwatch, current>>

\* The loop condition: ctx.Err() == nil enters the body, otherwise Watch
\* returns ctx.Err().
WatchCond ==
  /\ watch.pc = "cond"
  /\ watch' = IF watch.ctxErr = ErrNil
                THEN [watch EXCEPT !.pc = "body"]
                ELSE [watch EXCEPT !.pc = "returned", !.ret = watch.ctxErr]
  /\ UNCHANGED <<nonwatch, current>>

\* The body that takes every reading, however short the interval.
WatchBody_NoIntervalCheck(v) ==
  /\ watch.pc = "body"
  /\ IF v.err # ErrNil
       THEN /\ watch' = [watch EXCEPT !.pc = "tick", !.got = v, !.reads = @ + 1]
            /\ UNCHANGED current
       ELSE \E r \in {Smoothed(rateNow(v.TxBytes, watch.prevTxBytes,
                                       watch.tickNow - watch.tickPrev),
                               watch.ratePrev, watch.build.fma)} :
              /\ watch' = [watch EXCEPT !.pc = "tick", !.got = v, !.reads = @ + 1,
                             !.ratePrev = r, !.prevTxBytes = v.TxBytes,
                             !.tickPrev = watch.tickNow]
              /\ current' = Uint64(r, watch.build.sat)
  /\ UNCHANGED nonwatch

\* The loop body: read the counter; on an error log and continue; when the
\* interval is long enough compute the rate, publish the estimate with set
\* and remember the reading and the tick. Then wait for the next tick.
WatchBody(v) ==
  /\ watch.pc = "body"
  /\ IF v.err # ErrNil
       THEN /\ watch' = [watch EXCEPT !.pc = "tick", !.got = v, !.reads = @ + 1]
            /\ UNCHANGED current
       ELSE IF LongEnough(watch.tickNow, watch.tickPrev)
         THEN \E r \in {Smoothed(rateNow(v.TxBytes, watch.prevTxBytes,
                                         watch.tickNow - watch.tickPrev),
                                 watch.ratePrev, watch.build.fma)} :
                /\ watch' = [watch EXCEPT !.pc = "tick", !.got = v, !.reads = @ + 1,
                               !.ratePrev = r, !.prevTxBytes = v.TxBytes,
                               !.tickPrev = watch.tickNow]
                /\ current' = Uint64(r, watch.build.sat)
         ELSE /\ watch' = [watch EXCEPT !.pc = "tick", !.got = v, !.reads = @ + 1]
              /\ UNCHANGED current
  /\ UNCHANGED nonwatch

InitWatch ==
  /\ requireTokens = TRUE
  /\ maxIPs = 1
  /\ SvcInit
  /\ mgrLog = <<>>
  /\ TokInit
  /\ watch \in {[NoWatch EXCEPT !.build = b] : b \in Builds}
  /\ reader = NoReaders
  /\ LimitInit
  /\ Required = TRUE
  /\ gates = Setup(FALSE, GoodExpected, FALSE, manageDevice, TRUE, TRUE)
  /\ limit \in {0, MaxRate}
  /\ current = Big(0)
  /\ greq = NoGateReq
  /\ gpc = "idle"
  /\ gclaim = NoClaim
  /\ gcode = NoStatus
  /\ gtrace = <<>>
  /\ acc = NoAccept

NextWatch ==
  \/ WatchCall
  \/ \E v \in NetDevLines : WatchFirstRead(v)
  \/ \E e \in CtxErrs : WatchCtxDone(e)
  \/ \E d \in 1..MaxTick : WatchTick(d)
  \/ WatchCond
  \/ \E v \in NetDevLines : WatchBody(v)

SpecWatch == InitWatch /\ [][NextWatch]_vars

\* The ticker keeps ticking and the goroutine of Watch keeps running: it
\* does not stay for ever at a step it can take. The loop body can run
\* whatever its read returns and every run of it leaves the body, so the
\* condition on the body is written with the reads that fail: it holds
\* exactly when Watch does not stay at the body for ever, and it asks for no
\* read to fail.
FairWatch ==
  /\ SpecWatch
  /\ WF_vars(\E v \in NetDevLines : WatchFirstRead(v))
  /\ WF_vars(\E d \in 1..MaxTick : WatchTick(d))
  /\ WF_vars(WatchCond)
  /\ WF_vars(\E v \in {w \in NetDevLines : w.err # ErrNil} : WatchBody(v))

\* ----------------------------------------------------- chanio.ReadOnce, run
nonreader == <<svcvars, ctlvars, apivars, tokvars, watch, Expected, treq>>

\* ReadOnce that closes the channel before it starts the goroutine.
ReadOnceCall_CloseFirst(i) ==
  /\ reader[i].pc = "idle"
  /\ reader' = [reader EXCEPT ![i].pc = "started", ![i].ch = "closed",
                              ![i].closes = @ + 1, ![i].size = 1]
  /\ UNCHANGED nonreader

\* ReadOnce is called: it makes the channel, starts the goroutine, which
\* makes its one-byte buffer, and returns the channel.
ReadOnceCall(i) ==
  /\ reader[i].pc = "idle"
  /\ reader' = [reader EXCEPT ![i].pc = "started", ![i].ch = "open", ![i].size = 1]
  /\ UNCHANGED nonreader

\* The other end of the reader closes it, or the reader breaks.
ReaderEnds(i, broken) ==
  /\ reader[i].src.open
  /\ reader' = [reader EXCEPT ![i].src.open = FALSE, ![i].src.broken = @ \/ broken]
  /\ UNCHANGED nonreader

\* The goroutine's r.Read(b) returns. A Read of an empty reader that may
\* still get data blocks.
ReaderRead(i) ==
  /\ reader[i].pc = "started"
  /\ reader[i].src.broken \/ reader[i].src.buf # <<>> \/ ~reader[i].src.open
  /\ LET res == Read(reader[i].src, reader[i].size)
     IN reader' = [reader EXCEPT ![i].pc = "read", ![i].src = res.src,
                                 ![i].n = res.n, ![i].err = res.err,
                                 ![i].reads = @ + 1]
  /\ UNCHANGED nonreader

\* The goroutine closes the channel and ends.
ReaderClose(i) ==
  /\ reader[i].pc = "read"
  /\ reader' = [reader EXCEPT ![i].pc = "done", ![i].ch = "closed", ![i].closes = @ + 1]
  /\ UNCHANGED nonreader

\* The caller receives from the channel: nothing is ever sent on it, so the
\* receive blocks until the channel is closed.
ReaderReceive(i) ==
  /\ reader[i].ch = "closed"
  /\ reader[i].recv = "-"
  /\ reader' = [reader EXCEPT ![i].recv = "closed"]
  /\ UNCHANGED nonreader

InitReader ==
  /\ requireTokens = TRUE
  /\ maxIPs = 1
  /\ SvcInit
  /\ CtlInit
  /\ mgrLog = <<>>
  /\ TokInit
  /\ watch = NoWatch
  /\ reader \in [Req -> {NoReader(src) : src \in ReaderSources}]
  /\ LimitInit

NextReader ==
  \E i \in Req :
    \/ ReadOnceCall(i)
    \/ \E broken \in BOOLEAN : ReaderEnds(i, broken)
    \/ ReaderRead(i)
    \/ ReaderClose(i)
    \/ ReaderReceive(i)

SpecReader == InitReader /\ [][NextReader]_vars

\* ------------------------------ the session handler behind the gate chain
AccessPath == "/v0/envelope/access"

\* The chain hands the request to the mux, which runs AllowRequest with the
\* request's context: the claim in it is the one the credential gate put
\* there, if that gate is in the chain and accepted a token.
ChainAllowRequest(r, m, ra) ==
  /\ gpc = "next"
  /\ greq.path = AccessPath
  /\ gpc' = "done"
  /\ gtrace' = Append(gtrace, "next")
  /\ AllowRequestSteps(r, m, ra, gclaim)
  /\ UNCHANGED <<requireTokens, maxIPs, apivars, tokvars, watch, reader, Expected, treq,
                 acc, Required, gates, limit, current, greq, gclaim, gcode>>

\* main: the chain Setup composes, with or without a verifier, with a
\* machine name or with the empty default of the flag, and the token
\* requirement of the command line in both the credential gate
\* and the handler.
InitChain ==
  /\ requireTokens \in BOOLEAN
  /\ maxIPs = 1
  /\ SvcInit
  /\ mgrLog = <<>>
  /\ TokInit
  /\ watch = NoWatch
  /\ reader = NoReaders
  /\ LimitInit
  /\ Required = requireTokens
  /\ \E verifierNil \in BOOLEAN, machine \in {"", "mlab1"} :
       gates = Setup(verifierNil, ExpectedOf("issuer", machine), FALSE, "eth0", TRUE, TRUE)
  /\ limit = 0
  /\ current = Big(0)
  /\ greq = NoGateReq
  /\ gpc = "idle"
  /\ gclaim = NoClaim
  /\ gcode = NoStatus
  /\ gtrace = <<>>
  /\ acc = NoAccept

NextChain ==
  \/ \E saveOK \in BOOLEAN : MainStart(saveOK)
  \/ \E ok \in BOOLEAN : MainCommand(ok)
  \/ \E ok \in BOOLEAN : MainListen(ok)
  \/ MainStartNull
  \/ GateArrive([path |-> AccessPath, token |-> "",
                 verify |-> [claim |-> NoClaim, err |-> ErrVerify]])
  \/ \E v \in VerifyResults :
       GateArrive([path |-> AccessPath, token |-> "this-is-a-fake-token", verify |-> v])
  \/ TokenLimit
  \/ TxLimit
  \/ \E r \in Req, m \in Methods : ChainAllowRequest(r, m, "127.0.0.2:1234")
  \/ \E r \in Req : GrantAcquire(r)
  \/ \E r \in Req, ok \in BOOLEAN : GrantExec(r, ok)
  \/ \E r \in Req : GrantRelease(r)
  \/ \E r \in Req : GrantNull(r)
  \/ \E r \in Req, code \in UpgradeCodes : SetupConn(r, code)
  \/ \E r \in Req : WaitBegin(r)
  \/ \E r \in Req : ReadOnce(r)
  \/ \E r \in Req : CtxCancel(r)
  \/ \E r \in Req : WaitReturn(r)
  \/ \E r \in Req, ok \in BOOLEAN : RevokeExec(r, ok)
  \/ \E r \in Req : RevokeRelease(r)
  \/ \E r \in Req : RevokeNull(r)

SpecChain == InitChain /\ [][NextChain]_vars

\* -------------------------------- TokenController.Limit, requests side by side
nonlimit == <<requireTokens, maxIPs, mainvars, fwvars, cur, reqvars, ctlvars, apivars,
              tokvars, watch, reader>>

\* A request enters Limit: isVerified reads the access_token. Without one it
\* is accepted with its own context when tokens are not required, and
\* answered 401 when they are.
LimitArrive(r, rq) ==
  /\ treq[r].pc = "idle"
  /\ treq' = [treq EXCEPT ![r] =
       IF ~rq.given /\ ~Required
         THEN [@ EXCEPT !.pc = "next", !.rq = rq, !.out = treq[r].ctx]
       ELSE IF ~rq.given
         THEN [@ EXCEPT !.pc = "done", !.rq = rq, !.code = StatusUnauthorized]
       ELSE [@ EXCEPT !.pc = "copy", !.rq = rq]]
  /\ UNCHANGED <<nonlimit, now, Expected>>

\* isVerified that stamps the instant on the controller's own Expected.
LimitCopy_StampShared(r) ==
  /\ treq[r].pc = "copy"
  /\ Expected' = [Expected EXCEPT !.time = now]
  /\ treq' = [treq EXCEPT ![r].pc = "verify", ![r].exp = Expected', ![r].copiedAt = now]
  /\ UNCHANGED <<nonlimit, now>>

\* isVerified: exp := t.Expected; exp.Time = time.Now().
LimitCopy(r) ==
  /\ treq[r].pc = "copy"
  /\ treq' = [treq EXCEPT ![r].pc = "verify",
                          ![r].exp = [Expected EXCEPT !.time = now],
                          ![r].copiedAt = now]
  /\ UNCHANGED <<nonlimit, now, Expected>>

\* isVerified: t.Public.Verify(token, exp); an error is answered 401, a
\* claim is attached to a context derived from the request's.
LimitVerify(r) ==
  /\ treq[r].pc = "verify"
  /\ LET v == Verify(verifier, treq[r].rq.token, treq[r].exp)
         res == [cl |-> v.cl, nil |-> v.nil, err |-> v.err, tried |-> v.tried,
                 expected |-> treq[r].exp]
     IN treq' = [treq EXCEPT ![r] =
          IF res.err # NoErr
            THEN [@ EXCEPT !.pc = "done", !.res = res, !.code = StatusUnauthorized]
          ELSE [@ EXCEPT !.pc = "next", !.res = res, !.out = SetClaim(treq[r].ctx, res.cl)]]
  /\ UNCHANGED <<nonlimit, now, Expected>>

\* The next handler runs with the cloned request and reads the claim.
LimitNext(r) ==
  /\ treq[r].pc = "next"
  /\ treq' = [treq EXCEPT ![r].pc = "done", ![r].seen = GetClaim(treq[r].out), ![r].code = StatusOK]
  /\ UNCHANGED <<nonlimit, now, Expected>>

InitLimit ==
  /\ requireTokens = TRUE
  /\ maxIPs = 1
  /\ SvcInit
  /\ mgrLog = <<>>
  /\ vkeys = LimitKeys
  /\ verifier = NewVerifier(LimitKeys)
  /\ tok = BadToken
  /\ vres = NoResult
  /\ watch = NoWatch
  /\ reader = NoReaders
  /\ LimitInit
  /\ Required \in BOOLEAN
  /\ gates = Setup(FALSE, GoodExpected, FALSE, "", TRUE, TRUE)
  /\ limit = 0
  /\ current = Big(0)
  /\ greq = NoGateReq
  /\ gpc = "idle"
  /\ gclaim = NoClaim
  /\ gcode = NoStatus
  /\ gtrace = <<>>
  /\ acc = NoAccept

NextLimit ==
  \/ \E r \in Req, rq \in LimitTokens : LimitArrive(r, rq)
  \/ \E r \in Req : LimitCopy(r)
  \/ \E r \in Req : LimitVerify(r)
  \/ \E r \in Req : LimitNext(r)
  \/ Tick

SpecLimit == InitLimit /\ [][NextLimit]_vars

\* The service under either manager, where the first request to arrive is
\* any request at all (every method, remote address and claim) and one
\* session of SessionInputs runs beside it.
AdmitInputs ==
  {[method |-> m, remoteAddr |-> ra, claim |-> cl] :
     m \in Methods, ra \in RemoteAddrs, cl \in Claims}

InitAdmit ==
  /\ requireTokens \in BOOLEAN
  /\ maxIPs \in 0..MaxMaxIPs
  /\ CtlInit
  /\ mgrLog = <<>>
  /\ TokInit
  /\ watch = NoWatch
  /\ reader = NoReaders
  /\ LimitInit
  /\ SvcInit

NextAdmit ==
  \/ \E saveOK \in BOOLEAN : MainStart(saveOK)
  \/ \E ok \in BOOLEAN : MainCommand(ok)
  \/ \E ok \in BOOLEAN : MainListen(ok)
  \/ MainStartNull
  \/ Tick
  \/ \E i \in AdmitInputs : AllowRequest(1, i.method, i.remoteAddr, i.claim)
  \/ \E i \in SessionInputs : AllowRequest(2, i.method, i.remoteAddr, i.claim)
  \/ \E r \in Req : GrantAcquire(r)
  \/ \E r \in Req, ok \in BOOLEAN : GrantExec(r, ok)
  \/ \E r \in Req : GrantRelease(r)
  \/ \E r \in Req : GrantNull(r)
  \/ \E r \in Req, code \in UpgradeCodes : SetupConn(r, code)
  \/ \E r \in Req : WaitBegin(r)
  \/ \E r \in Req : ReadOnce(r)
  \/ \E r \in Req : CtxCancel(r)
  \/ \E r \in Req : WaitReturn(r)
  \/ \E r \in Req, ok \in BOOLEAN : RevokeExec(r, ok)
  \/ \E r \in Req : RevokeRelease(r)
  \/ \E r \in Req : RevokeNull(r)

SpecAdmit == InitAdmit /\ [][NextAdmit]_vars

TypeOK ==
  /\ cur \in Int
  /\ now \in 0..MaxTime
  /\ \A r \in Req : pc[r] \in {"idle", "grant", "grant_exec", "grant_release", "setup",
                               "wait_begin", "wait", "revoke", "revoke_release",
                               "done", "panicked"}


\* The fairness the scheduler and the clock give: time passes, and a
\* goroutine that can run does run. A client is never obliged to send or
\* close, and nothing obliges a request context to be cancelled.
FairSpec ==
  /\ Spec
  /\ WF_vars(Tick)
  /\ \A r \in Req : WF_vars(WaitReturn(r))
  /\ \A r \in Req : WF_vars(\E ok \in BOOLEAN : RevokeExec(r, ok))

\* The Read that ReadOnce's goroutine is blocked in returns once the
\* connection it reads from has been closed.
ReadUnblocked(r) == conn[r] = "closed" /\ ReadOnce(r)

\* The service as deployed, where a Read on a closed connection returns.
FairWait == Spec /\ \A r \in Req : WF_vars(ReadUnblocked(r))

\* ----------------------------------------------------------------- helpers
RECURSIVE Count(_, _)
Count(s, x) ==
  IF s = <<>> THEN 0 ELSE (IF Head(s) = x THEN 1 ELSE 0) + Count(Tail(s), x)

Has(s, x) == \E i \in 1..Len(s) : s[i] = x

\* The published rate is above l.
RateAbove(l) == BigCmp(current, Big(l)) > 0

IsPrefix(s, t) == Len(s) <= Len(t) /\ \A i \in 1..Len(s) : s[i] = t[i]

\* Units of the budget session r holds: reservations minus releases.
Reserved(r) == Count(hist[r], "reserve") - Count(hist[r], "release")

\* The rule session r inserted is still in the ruleset.
RuleLive(r) == Has(hist[r], "insert") /\ ~Has(hist[r], "delete")

RevokeCalls(r) == {i \in 1..Len(calls[r]) : calls[r][i].op = "Revoke"}

Finished(r) == pc[r] \in {"done", "panicked"}

\* ---------------------------------------------------------------------- C1
\* C1: under every interleaving of Grant and Revoke on one IPManager of
\* capacity maxIPs the reserved count stays within 0..maxIPs, and the sessions
\* whose Grant succeeded and whose Revoke has not released number at most
\* maxIPs.
C1_BudgetWithinCapacity ==
  /\ cur \in 0..maxIPs
  /\ Cardinality({r \in Req : grantErr[r] = ErrNil /\ revokeErr[r] # ErrNil}) <= maxIPs

\* Two Grant attempts race for a budget of one: one holds it, one was refused.
C1_Witness ==
  /\ maxIPs = 1 /\ cur = 1
  /\ \E r, q \in Req : pc[r] = "wait" /\ grantErr[q] = ErrMaxConcurrent

\* ---------------------------------------------------------------------- C2
\* C2: a handler whose Grant succeeded calls Revoke exactly once, with the
\* address it passed to Grant, before it returns or panics, and a handler
\* whose Grant did not succeed never calls Revoke.
C2_GrantRevokePaired ==
  \A r \in Req :
    /\ Cardinality(RevokeCalls(r)) <= 1
    /\ RevokeCalls(r) # {} =>
         /\ grantErr[r] = ErrNil
         /\ calls[r] = <<Call("Grant", remote[r]), Call("Revoke", remote[r])>>
    /\ (Finished(r) /\ grantErr[r] = ErrNil) => Cardinality(RevokeCalls(r)) = 1

\* One handler revoked after a failed upgrade, another after its wait.
C2_Witness ==
  \E r, q \in Req :
    /\ pc[r] = "done" /\ status[r] = StatusBadRequest
    /\ grantErr[r] = ErrNil /\ ~Has(hist[r], "wait") /\ Cardinality(RevokeCalls(r)) = 1
    /\ pc[q] = "done" /\ Has(hist[q], "wait") /\ Cardinality(RevokeCalls(q)) = 1

\* ---------------------------------------------------------------------- C3
SessionOrder == <<"reserve", "insert", "wait", "close", "delete", "release">>

\* C3: the steps of a session happen in the order reserve, insert, wait,
\* close, delete, release (a session that fails leaves the sequence at the
\* failed step), and a session's rule is in the ruleset only while the
\* session holds a unit of the budget.
C3_SessionStepsInOrder ==
  \A r \in Req :
    /\ \/ IsPrefix(hist[r], SessionOrder)
       \/ IsPrefix(hist[r], <<"reserve", "insert", "wait", "close", "delete_err">>)
       \/ IsPrefix(hist[r], <<"reserve", "insert", "delete", "release">>)
       \/ IsPrefix(hist[r], <<"reserve", "insert", "delete_err">>)
       \/ IsPrefix(hist[r], <<"reserve", "insert_err", "release">>)
    /\ Has(hist[r], "wait") => (conn[r] = "closed" <=> Has(hist[r], "close"))
    /\ RuleLive(r) => (Reserved(r) = 1 /\ InChain(chain, ipTable("insert", remote[r]).rule))

\* A session went through all six steps.
C3_Witness == \E r \in Req : hist[r] = SessionOrder /\ pc[r] = "done"

\* ---------------------------------------------------------------------- C4
\* C4: when the insert fails, Grant has released its unit by the time it
\* returns the error, so the reserved count is the number of units held and
\* a later Grant can take the unit.
C4_GrantFailureReleases ==
  /\ \A r \in Req : grantErr[r] = ErrTool =>
       (hist[r] = <<"reserve", "insert_err", "release">> /\ Reserved(r) = 0)
  /\ cur = Cardinality({r \in Req : Reserved(r) = 1})

\* With a budget of one, a Grant failed in the tool and a later Grant holds
\* the unit.
C4_Witness ==
  /\ maxIPs = 1
  /\ \E r, q \in Req : grantErr[r] = ErrTool /\ grantErr[q] = ErrNil /\ pc[q] = "wait"

\* ---------------------------------------------------------------------- C5
\* C5: when the delete fails Revoke returns the error and the unit stays
\* reserved; a session's unit is released after a Revoke call only when the
\* delete succeeded.
C5_RevokeFailureRetains ==
  /\ \A r \in Req :
       /\ revokeErr[r] = ErrTool => (Reserved(r) = 1 /\ Has(hist[r], "delete_err"))
       /\ (RevokeCalls(r) # {} /\ Reserved(r) = 0) => Has(hist[r], "delete")
  /\ cur >= Cardinality({r \in Req : revokeErr[r] = ErrTool})

\* A Revoke failed and its unit is still counted.
C5_Witness == \E r \in Req : revokeErr[r] = ErrTool /\ cur >= 1 /\ RuleLive(r)

\* ---------------------------------------------------------------------- C6
\* C6: once a session's Grant and Revoke both succeeded the pair has no net
\* effect on the budget: the session holds nothing and the reserved count is
\* exactly what the other sessions hold, which with no other call in between
\* is its value before the Grant.
C6_GrantRevokeNetZero ==
  \A r \in Req :
    (grantErr[r] = ErrNil /\ revokeErr[r] = ErrNil) =>
       /\ Count(hist[r], "reserve") = 1 /\ Count(hist[r], "release") = 1
       /\ cur = Cardinality({q \in Req \ {r} : Reserved(q) = 1})

\* A session granted and revoked with no other call made: the count is back
\* at 0, its value before the Grant.
C6_Witness ==
  \E r \in Req :
    /\ grantErr[r] = ErrNil /\ revokeErr[r] = ErrNil /\ cur = 0
    /\ \A q \in Req \ {r} : calls[q] = <<>>

\* ---------------------------------------------------------------------- C7
\* C7: a Grant that finds the budget exhausted returns ErrMaxConcurrent and
\* leaves the reserved count and the ruleset as they were, without running
\* the tool.
C7_ExhaustedGrantIsInert ==
  [][\A r \in Req :
       (pc[r] = "grant" /\ pc'[r] # "grant" /\ cur >= maxIPs) =>
          /\ grantErr'[r] = ErrMaxConcurrent
          /\ cur' = cur /\ chain' = chain /\ policy' = policy
          /\ hist'[r] = <<>>]_vars

\* A manager of capacity 0 refused a Grant.
C7_Witness ==
  \E r \in Req : maxIPs = 0 /\ grantErr[r] = ErrMaxConcurrent /\ hist[r] = <<>>

\* ---------------------------------------------------------------------- C8
\* C8: wait returns only once the request context is cancelled, the deadline
\* is reached or the ReadOnce channel is closed, and every session that
\* waits eventually leaves wait and calls Revoke.
C8_WaitBlocksUntilWoken ==
  /\ [][\A r \in Req :
          (pc[r] = "wait" /\ pc'[r] # "wait") =>
             (ctxDone[r] \/ now >= deadline[r] \/ rd[r] = "closed")]_vars
  /\ \A r \in Req : (pc[r] = "wait") ~> (RevokeCalls(r) # {})

\* A session left wait on its deadline alone and called Revoke.
C8_Witness ==
  \E r \in Req :
    /\ pc[r] = "revoke_release" /\ Has(hist[r], "close")
    /\ ~ctxDone[r] /\ rd[r] = "reading"
    /\ now >= deadline[r] /\ RevokeCalls(r) # {}

\* ---------------------------------------------------------------------- C9
\* C9: after a Revoke failure made a handler panic nothing more happens in
\* the process: no request arrives at the handler and no Grant succeeds.
C9_PanicEndsProcess ==
  [][(\E q \in Req : pc[q] = "panicked") =>
       \A r \in Req :
         /\ ~(pc[r] = "idle" /\ pc'[r] # "idle")
         /\ ~(grantErr[r] # ErrNil /\ grantErr'[r] = ErrNil)]_vars

\* --------------------------------------------------------------------- C10
\* C10: when main's Stop has run, every session that was granted has left
\* wait, closed its connection and revoked its grant.
C10_SessionsRevokeBeforeStop ==
  mainpc \in {"stopped", "exited"} =>
    \A r \in Req : grantErr[r] = ErrNil =>
      (conn[r] # "open" /\ revokeErr[r] = ErrNil)

\* ----------------------------------------------------------------- helpers
\* The claim the handler wrapped by the chain finds in the request context.
Monitoring(cl) == cl.present /\ cl.sub = monitorSubject

TokenAccepted == Has(gtrace, "token") /\ gcode # StatusUnauthorized

\* --------------------------------------------------------------------- C11
\* C11: TokenController.Limit decides by token, Required and Verify's
\* result: without a token the next handler runs with no claim when tokens
\* are not required and the answer is 401 when they are; with a token Verify
\* is called, its claim is attached and the next handler runs when it
\* succeeds, and the answer is 401 when it fails, required or not. After a
\* 401 the next handler has not run.
C11_TokenLimitDecision ==
  /\ [][(gpc = "token" /\ gpc' # "token") =>
          /\ (greq.token = "" /\ ~Required) =>
               (gpc' = After("token") /\ gclaim' = NoClaim /\ gcode' = NoStatus
                /\ ~Has(gtrace', "verify"))
          /\ (greq.token = "" /\ Required) =>
               (gpc' = "done" /\ gcode' = StatusUnauthorized /\ ~Has(gtrace', "verify"))
          /\ (greq.token # "" /\ greq.verify.err = ErrNil) =>
               (gpc' = After("token") /\ gclaim' = greq.verify.claim
                /\ gcode' = NoStatus /\ Has(gtrace', "verify"))
          /\ (greq.token # "" /\ greq.verify.err # ErrNil) =>
               (gpc' = "done" /\ gcode' = StatusUnauthorized /\ gclaim' = NoClaim
                /\ Has(gtrace', "verify"))]_vars
  /\ [](gcode = StatusUnauthorized => (gpc = "done" /\ ~Has(gtrace, "next")))

\* A token that fails to verify was answered 401 although tokens are not
\* required.
C11_Witness ==
  /\ ~Required /\ greq.token # "" /\ greq.verify.err # ErrNil
  /\ gcode = StatusUnauthorized /\ gtrace = <<"token", "verify">>

\* --------------------------------------------------------------------- C12
\* C12: through the chain credential gate then rate gate, a request whose
\* token verified with subject "monitoring" passes the rate gate whatever
\* the rate and is never answered 503, and a request with no claim attached
\* is treated as non-monitoring: over the ceiling on an enforced path it is
\* answered 503.
C12_MonitoringBypassesRateGate ==
  /\ [][(gpc = "tx" /\ gpc' # "tx") =>
          /\ Monitoring(gclaim) => (gpc' = After("tx") /\ gcode' = NoStatus)
          /\ (gclaim = NoClaim /\ greq.path \in Enforced /\ limit > 0 /\ RateAbove(limit)) =>
               (gpc' = "done" /\ gcode' = StatusServiceUnavailable)]_vars
  /\ [](Monitoring(gclaim) => gcode # StatusServiceUnavailable)

\* A monitoring request went through both gates with the rate over the
\* ceiling and reached the wrapped handler.
C12_Witness ==
  /\ gates = <<"token", "tx">> /\ Monitoring(gclaim) /\ greq.path \in Enforced
  /\ limit = 1 /\ current = Big(MaxRate + 1)
  /\ gtrace = <<"token", "verify", "tx", "next">> /\ gcode = StatusOK

\* --------------------------------------------------------------------- C13
\* C13: the rate gate rejects exactly when the ceiling is non-zero, the rate
\* is strictly greater than the ceiling, the request is not monitoring and
\* its path is enforced; with ceiling 0 nothing is ever rejected.
C13_LimitedIffOverCeiling ==
  /\ [][(gpc = "tx" /\ gpc' # "tx") =>
          ((gcode' = StatusServiceUnavailable /\ gpc' = "done") <=>
             (limit # 0 /\ RateAbove(limit) /\ ~Monitoring(gclaim)
              /\ greq.path \in Enforced))]_vars
  /\ [](limit = 0 => gcode # StatusServiceUnavailable)

\* With ceiling 0 and a non-zero rate a non-monitoring request on an
\* enforced path passed the rate gate.
C13_Witness ==
  /\ limit = 0 /\ RateAbove(0) /\ ~Monitoring(gclaim) /\ greq.path \in Enforced
  /\ Has(gtrace, "tx") /\ gcode = StatusOK

\* --------------------------------------------------------------------- C14
\* C14: in a chain composed by Setup the credential gate comes before the
\* rate gate: a request reaches the rate gate only after the credential gate
\* accepted it, and a request the credential gate rejects is answered 401
\* and reaches neither the rate gate nor the wrapped handler.
C14_CredentialGateFirst ==
  /\ (Has(gtrace, "tx") /\ Has(gates, "token")) =>
       (gtrace[1] = "token" /\ gcode # StatusUnauthorized)
  /\ Has(gtrace, "next") =>
       \A i \in 1..Len(gates) : Has(gtrace, gates[i])
  /\ gcode = StatusUnauthorized =>
       (gpc = "done" /\ ~Has(gtrace, "tx") /\ ~Has(gtrace, "next"))

\* With both gates composed and the rate over the ceiling, a request without
\* a token was answered 401 by the credential gate alone.
C14_Witness ==
  /\ gates = <<"token", "tx">> /\ limit = 1 /\ RateAbove(limit)
  /\ greq.path \in Enforced /\ gcode = StatusUnauthorized /\ gtrace = <<"token">>

\* --------------------------------------------------------------------- C15
\* C15: a request to a path outside the enforced set passes the credential
\* gate whatever its token, and no claim is attached to it.
C15_UnenforcedPathPasses ==
  (greq.path \notin Enforced /\ Has(gtrace, "token")) =>
     (gcode # StatusUnauthorized /\ gclaim = NoClaim)

\* ----------------------------------------------------------------- helpers
Max(a, b) == IF a >= b THEN a ELSE b

\* The claim of a request is one getDeadline accepts at time t.
GoodClaim(cl, t) ==
  IF cl.present THEN cl.sub = subject /\ cl.exp >= t ELSE ~requireTokens

\* --------------------------------------------------------------------- C16
\* C16: for an attached claim whose subject matches and whose expiry is not
\* past, the deadline is the later of the claim's expiry and now + timeout;
\* with no claim and tokens not required it is now + timeout; so no deadline
\* is earlier than now + timeout, now being the time of the request.
C16_DeadlineAtLeastTimeout ==
  [][\A r \in Req :
       (pc[r] = "idle" /\ pc'[r] # "idle") =>
         LET rq == req'[r] IN
           /\ (rq.method = "GET" /\ SplitHostPort(rq.remoteAddr).err = ErrNil
               /\ GoodClaim(rq.claim, now)) => pc'[r] = "grant"
           /\ pc'[r] = "grant" =>
                /\ GoodClaim(rq.claim, now)
                /\ deadline'[r] = IF rq.claim.present
                                    THEN Max(rq.claim.exp, now + Timeout)
                                    ELSE now + Timeout
                /\ deadline'[r] >= now + Timeout]_vars

\* A claim that expires before now + timeout was given the deadline
\* now + timeout, and a request without a claim was given one too.
C16_Witness ==
  \E r, q \in Req :
    /\ req[r].claim.present /\ req[r].claim.exp < deadline[r] /\ grantErr[r] = ErrNil
    /\ ~req[q].claim.present /\ deadline[q] >= Timeout /\ grantErr[q] = ErrNil

\* --------------------------------------------------------------------- C17
\* C17: a request that is not a GET is answered 405; a GET is answered 400
\* when tokens are required and no claim is attached, when the claim's
\* subject is not the service's, or when the claim's expiry is past. The
\* answer is given in the step that takes the request, which leaves the
\* budget and the ruleset as they were and ends the handler; such a request
\* never calls Grant. (A 400 can also be the upgrader's answer to a failed
\* handshake, after a Grant that succeeded: that is not one of these cases.)
C17_RejectedBeforeGrant ==
  /\ [][\A r \in Req :
          (pc[r] = "idle" /\ pc'[r] # "idle") =>
            LET rq == req'[r] IN
              /\ rq.method # "GET" => status'[r] = StatusMethodNotAllowed
              /\ (rq.method = "GET" /\ ~GoodClaim(rq.claim, now)) =>
                   status'[r] = StatusBadRequest
              /\ status'[r] \in {StatusMethodNotAllowed, StatusBadRequest} =>
                   (pc'[r] = "done" /\ calls'[r] = <<>> /\ cur' = cur /\ chain' = chain)]_vars
  /\ [](\A r \in Req :
          /\ (status[r] \in {StatusMethodNotAllowed, StatusBadRequest} /\ grantErr[r] = "-") =>
               (pc[r] = "done" /\ calls[r] = <<>> /\ hist[r] = <<>>)
          /\ (pc[r] # "idle" /\ (\/ req[r].method # "GET"
                                 \/ ~req[r].claim.present /\ requireTokens
                                 \/ req[r].claim.present /\ req[r].claim.sub # subject)) =>
               /\ status[r] \in {StatusMethodNotAllowed, StatusBadRequest}
               /\ pc[r] = "done" /\ calls[r] = <<>> /\ grantErr[r] = "-")

\* A GET whose claim is made out to another subject was answered 400 while
\* another session held the budget's unit.
C17_Witness ==
  \E r, q \in Req :
    /\ req[r].method = "GET" /\ req[r].claim.present /\ req[r].claim.sub # subject
    /\ status[r] = StatusBadRequest /\ calls[r] = <<>>
    /\ pc[q] = "wait" /\ cur = 1

\* --------------------------------------------------------------------- C18
\* C18: when Grant returns ErrMaxConcurrent the answer is 503, when it
\* returns another error the answer is 500; either way the connection is not
\* upgraded and Revoke is not called.
C18_GrantErrorStatus ==
  \A r \in Req :
    /\ grantErr[r] = ErrMaxConcurrent => status[r] = StatusServiceUnavailable
    /\ grantErr[r] \notin {"-", ErrNil, ErrMaxConcurrent} =>
         status[r] = StatusInternalServerError
    /\ grantErr[r] \notin {"-", ErrNil} =>
         (pc[r] = "done" /\ conn[r] = "none" /\ rd[r] = "none" /\ RevokeCalls(r) = {})

\* One request was refused for want of budget and another failed in the tool.
C18_Witness ==
  \E r, q \in Req :
    /\ grantErr[r] = ErrMaxConcurrent /\ status[r] = StatusServiceUnavailable
    /\ grantErr[q] = ErrTool /\ status[q] = StatusInternalServerError

\* C19: a Stop called on a manager on which no Start has returned nil before
\* it returns an error and does not run the restore utility.
C19_StopBeforeSuccessfulStart ==
  \A i \in DOMAIN mgrLog :
    (/\ mgrLog[i].op = "Stop"
     /\ \A k \in 1..(i - 1) :
          ~(mgrLog[k].op = "Start" /\ mgrLog[k].err = ErrNil))
      => (mgrLog[i].err # ErrNil /\ ~mgrLog[i].ran)

\* C20: when every Start succeeded, a Stop that finds a saved ruleset runs
\* the restore utility with that ruleset on its standard input and returns
\* what the utility printed, and the snapshot is consumed: of two Stops that
\* ran the restore utility, a Start lies between them.
C20_SnapshotRestoredOnce ==
  (\A k \in DOMAIN mgrLog : mgrLog[k].op = "Start" => mgrLog[k].err = ErrNil)
    => /\ \A i \in DOMAIN mgrLog :
            (mgrLog[i].op = "Stop" /\ mgrLog[i].saved # <<>>)
              => /\ mgrLog[i].ran
                 /\ mgrLog[i].stdin = mgrLog[i].saved
                 /\ mgrLog[i].out = mgrLog[i].printed
       /\ \A i, j \in DOMAIN mgrLog :
            (i < j /\ mgrLog[i].op = "Stop" /\ mgrLog[i].ran
                   /\ mgrLog[j].op = "Stop" /\ mgrLog[j].ran)
              => \E k \in (i + 1)..(j - 1) : mgrLog[k].op = "Start"

\* C21: a Start whose save of the current ruleset fails returns that error,
\* leaves the saved ruleset and the live ruleset as they were and starts no
\* command of its script; a Stop that follows it on a manager that had
\* nothing saved fails as uninitialized without running the restore utility.
C21_SaveFailureLeavesNoSnapshot ==
  /\ [][Len(mgrLog') = Len(mgrLog) + 1
          => LET e == mgrLog'[Len(mgrLog')]
             IN (e.op = "Start" /\ e.saveErr # ErrNil)
                  => /\ e.err = e.saveErr
                     /\ e.issued = 0
                     /\ origRules' = origRules
                     /\ policy' = policy
                     /\ chain' = chain]_vars
  /\ [](\A i \in DOMAIN mgrLog :
          (i > 1 /\ mgrLog[i].op = "Stop" /\ mgrLog[i - 1].op = "Start"
                 /\ mgrLog[i - 1].saveErr # ErrNil /\ mgrLog[i - 1].saved = <<>>)
            => (mgrLog[i].err = "cannot restore uninitialized rules" /\ ~mgrLog[i].ran))

\* A Start whose save failed on a fresh manager, after the host ruleset
\* changed, followed by a Stop.
C21_Witness ==
  /\ Len(mgrLog) = 2
  /\ mgrLog[1].op = "Start"
  /\ mgrLog[1].saveErr = ErrTool
  /\ mgrLog[1].issued = 0
  /\ mgrLog[2].op = "Stop"
  /\ origRules = <<>>
  /\ policy = HostPolicy

\* What NewVerifier was called with, once it has returned.
VerifierBuilt == verifier # NoVerifier

\* C22: NewVerifier given public keys of which two share a key id returns no
\* verifier and ErrDuplicateKeyID naming that key id; the keys of a verifier
\* it does return are the keys supplied, under pairwise distinct key ids.
C22_DuplicateKeyIDRejected ==
  VerifierBuilt =>
    /\ ((\A i \in DOMAIN vkeys : vkeys[i] \in PublicJWKs)
          /\ \E i, j \in DOMAIN vkeys : i # j /\ vkeys[i].kid = vkeys[j].kid)
         => /\ verifier.nil
            /\ verifier.err.is = ErrDuplicateKeyID
            /\ \E i, j \in DOMAIN vkeys :
                 i # j /\ vkeys[i].kid = vkeys[j].kid /\ verifier.err.kid = vkeys[i].kid
    /\ ~verifier.nil
         => /\ \A i, j \in DOMAIN vkeys : i # j => vkeys[i].kid # vkeys[j].kid
            /\ DOMAIN verifier.keys = {vkeys[i].kid : i \in DOMAIN vkeys}
            /\ \A i \in DOMAIN vkeys : verifier.keys[vkeys[i].kid] = vkeys[i]

\* NewVerifier refused two different keys that carry the same key id.
C22_Witness ==
  /\ Len(vkeys) = 2
  /\ vkeys[1] # vkeys[2]
  /\ vkeys[1].kid = vkeys[2].kid
  /\ verifier.nil
  /\ verifier.err.is = ErrDuplicateKeyID

\* Verify has returned for the token at hand.
Verified == vres # NoResult

\* The token is as a holder of the private key of one of the verifier's keys
\* signed it, under that key's id.
SignedByKeyOfSet ==
  /\ tok.kid \in DOMAIN verifier.keys
  /\ tok.sig = Signature(verifier.keys[tok.kid].mat, tok.alg, tok.kid, tok.payload)

\* C23: Verify takes the key to check the signature with from the key id in
\* the token's header. A token signed by any key of a set of several keys
\* passes the signature check, against that key alone; a token whose key id
\* is not in the set gets ErrKeyIDNotFound naming that key id, and its
\* signature is checked against no key.
C23_KeySelectedByKeyID ==
  (Verified /\ ParseSigned(tok) = NoErr) =>
    /\ vres.tried \subseteq {tok.kid}
    /\ (Cardinality(DOMAIN verifier.keys) > 1 /\ SignedByKeyOfSet)
         => (~vres.nil /\ vres.tried = {tok.kid}
               /\ vres.err.is \notin {ErrKeyIDNotFound, "error in cryptographic primitive"})
    /\ tok.kid \notin DOMAIN verifier.keys
         => (vres.nil /\ vres.err = Err(ErrKeyIDNotFound, tok.kid) /\ vres.tried = {})

\* A verifier of two keys is shown a token signed with the private key of one
\* of them, but under a key id the verifier does not hold.
C23_Witness ==
  /\ Verified
  /\ Cardinality(DOMAIN verifier.keys) = 2
  /\ tok.kid = "999"
  /\ \E k \in DOMAIN verifier.keys :
       tok.sig = Signature(verifier.keys[k].mat, tok.alg, tok.kid, tok.payload)
  /\ vres.err = Err(ErrKeyIDNotFound, "999")

\* C24: for every key pair NewSigner makes a signer of, a token that Sign
\* produced for some claims under the private key, shown to a verifier that
\* holds the public key of the pair under the same key id, with an expected
\* pattern the claims match, verifies and yields those claims; a token
\* altered after it was signed fails verification.
C24_SignVerifyRoundTrip ==
  Verified =>
    \A key \in PrivateJWKs, cl \in JwtClaims :
      NewSigner(key).err = NoErr =>
        LET signed == Sign(NewSigner(key), cl)
        IN /\ (tok = signed
                 /\ key.kid \in DOMAIN verifier.keys
                 /\ verifier.keys[key.kid] = JWK(key.kid, key.mat, key.alg, TRUE)
                 /\ Validate(cl, vres.expected) = NoErr)
                => (vres.err = NoErr /\ ~vres.nil /\ vres.cl = cl)
           /\ tok \in Altered(signed) => (vres.err # NoErr /\ vres.nil)

\* C25: Verify accepts a token that carries an expiry only when the evaluation
\* instant is strictly before that expiry.
C25_ExpiryWithoutLeeway ==
  (Verified /\ vres.err = NoErr /\ vres.cl.exp # <<>>)
    => vres.expected.time < vres.cl.exp[1]

\* A step in which the Grant, or the Revoke, of session r ran its command
\* with success.
GrantInserted(r) == pc[r] = "grant_exec" /\ pc'[r] = "setup"
RevokeDeleted(r) == pc[r] = "revoke" /\ pc'[r] = "revoke_release"

\* The allow-rule for the subnet of an address.
SubnetRule(ip) == <<"--source=", ip.str, IF ip.fam = 4 THEN "/24" ELSE "/64", "--jump=ACCEPT">>

\* C26 as stated: a successful Grant puts three rules into INPUT (the subnet
\* of the address, tcp port 80, tcp port 443), and Revoke takes three out.
C26_GrantInsertsThreeRules ==
  [][\A r \in Req :
       /\ GrantInserted(r)
            => /\ Len(chain') = Len(chain) + 3
               /\ InChain(chain', SubnetRule(remote[r]))
               /\ InChain(chain', <<"--protocol=tcp", "--dport=80", "--jump=ACCEPT">>)
               /\ InChain(chain', <<"--protocol=tcp", "--dport=443", "--jump=ACCEPT">>)
       /\ RevokeDeleted(r) => Len(chain') = Len(chain) - 3]_vars

\* C26, amended: a successful Grant inserts one rule at the head of INPUT,
\* the ACCEPT for the subnet of the address, and a successful Revoke deletes
\* one rule, the first one equal to what Grant inserted for that address.
C26_GrantInsertsOneRule ==
  [][\A r \in Req :
       /\ GrantInserted(r) => chain' = <<SubnetRule(remote[r])>> \o chain
       /\ RevokeDeleted(r)
            => /\ Len(chain') = Len(chain) - 1
               /\ chain' = RemoveFirst(chain, SubnetRule(remote[r]))]_vars

\* A session from an IPv6 client was granted and revoked, and the chain is
\* what Start had left.
C26_Witness ==
  \E r \in Req :
    /\ remote[r].fam = 6
    /\ Has(hist[r], "insert")
    /\ Has(hist[r], "delete")
    /\ ~InChain(chain, SubnetRule(remote[r]))

\* C27: the command Grant ran for a session names the IPv4 tool and a /24
\* source for an IPv4 address, the IPv6 tool and a /64 source for an IPv6
\* address.
C27_ToolByAddressFamily ==
  \A r \in Req :
    Has(hist[r], "insert") =>
      LET e == ipTable("insert", remote[r])
      IN /\ remote[r].fam = 4 => (e.cmd = "/sbin/iptables" /\ e.rule[3] = "/24")
         /\ remote[r].fam = 6 => (e.cmd = "/sbin/ip6tables" /\ e.rule[3] = "/64")

\* C28: Accept on a nil controller returns what the listener returned. On a
\* controller, a listener error is returned with a nil connection; a
\* connection accepted while the rate read is above a non-zero ceiling is
\* closed once and an error returned with a nil connection; any other
\* accepted connection is returned, open, with a nil error.
C28_AcceptOutcome ==
  acc.called =>
    IF acc.txNil
      THEN acc.conn = acc.l.conn /\ acc.err = acc.l.err /\ acc.closed = 0
    ELSE IF acc.l.err # ErrNil
      THEN ~acc.conn /\ acc.err = acc.l.err
    ELSE IF limit > 0 /\ BigCmp(acc.rate, Big(limit)) > 0
      THEN ~acc.conn /\ acc.err \notin {ErrNil, ErrAccept} /\ acc.closed = 1
    ELSE acc.conn /\ acc.err = ErrNil /\ acc.closed = 0

\* A connection accepted over the ceiling was closed and refused.
C28_Witness ==
  /\ acc.called
  /\ ~acc.txNil
  /\ acc.l.conn /\ acc.l.err = ErrNil
  /\ BigCmp(acc.rate, Big(limit)) > 0
  /\ acc.closed = 1
  /\ acc.err = ErrRejected

\* The allow-rules in the live chain that a Grant inserted and no Revoke has
\* deleted.
GrantedRules == Cardinality({i \in DOMAIN chain : chain[i][1] = "--source="})

\* A Grant of session r has reserved and not yet returned, or a Revoke has
\* deleted and not yet released.
InManagerCall(r) == pc[r] \in {"grant_exec", "grant_release", "revoke_release"}

\* C29: the allow-rules Grant inserted that are still in the chain never
\* outnumber the reserved units, and while no Grant or Revoke is under way
\* there are exactly as many of them as reserved units.
C29_BudgetCountsLiveRules ==
  /\ GrantedRules <= cur
  /\ (\A r \in Req : ~InManagerCall(r)) => cur = GrantedRules

\* main's Stop has run while a session still waits on its connection with
\* its grant: one unit is reserved, one allow-rule is in the chain, and no
\* Grant or Revoke is under way.
C29_Witness ==
  /\ mainpc \in {"stopped", "exited"}
  /\ \A r \in Req : ~InManagerCall(r)
  /\ \E r \in Req : pc[r] = "wait" /\ grantErr[r] = ErrNil
  /\ cur = 1
  /\ GrantedRules = 1

\* The allow-rules in the live chain for the subnet of an address.
RulesFor(ip) == Cardinality({i \in DOMAIN chain : chain[i] = SubnetRule(ip)})

\* The units session r holds: reserved by its Grant, not released since.
Units(r) ==
  Cardinality({i \in DOMAIN hist[r] : hist[r][i] = "reserve"})
    - Cardinality({i \in DOMAIN hist[r] : hist[r][i] = "release"})

\* The sessions that hold a unit of the budget for an address.
Holders(ip) == {r \in Req : remote[r] = ip /\ Units(r) = 1}

\* The session's Grant succeeded and its Revoke has not released.
HoldsGrant(r) == grantErr[r] = ErrNil /\ revokeErr[r] # ErrNil

RejectRule == <<"--jump=REJECT">>

\* main's call of IPManager.Start has returned nil: every command of its
\* script ran with success.
StartReturnedNil ==
  requireTokens /\ started = Len(StartCommands(listenPort, manageDevice))

\* C31: in every state after Start has returned nil, main's shutdown and
\* Stop included, the INPUT chain ends with the REJECT rule; in every state
\* every allow-rule of a grant is above every REJECT rule; a successful
\* Grant puts its rule at the head of the chain and leaves the rest of the
\* chain as it was.
C31_GrantedRulesPrecedeReject ==
  /\ [](StartReturnedNil => (chain # <<>> /\ chain[Len(chain)] = RejectRule))
  /\ [](\A i, j \in DOMAIN chain :
          (chain[i][1] = "--source=" /\ chain[j] = RejectRule) => i < j)
  /\ [][\A r \in Req :
          GrantInserted(r) => chain' = <<SubnetRule(remote[r])>> \o chain]_vars

\* Two grants are still held after main's Stop has run: their rules are the
\* first two of the chain and the REJECT rule is the last.
C31_Witness ==
  /\ StartReturnedNil
  /\ mainpc \in {"stopped", "exited"}
  /\ Len(chain) > 2
  /\ chain[1][1] = "--source=" /\ chain[2][1] = "--source="
  /\ chain[Len(chain)] = RejectRule

\* A command that appends a rule to INPUT with the tool.
AppendInput(rule) == [cmd |-> iptables, op |-> "append", target |-> "INPUT", rule |-> rule]

\* The unconditional ACCEPT for an interface.
AcceptInterface(name) == AppendInput(<<"--in-interface=", name, "--protocol=all", "--jump=ACCEPT">>)

\* The head and the tail of Start's script.
ScriptHead ==
  << [cmd |-> iptables, op |-> "flush", target |-> "", rule |-> <<>>],
     [cmd |-> iptables, op |-> "policy", target |-> "INPUT", rule |-> <<"DROP">>],
     AcceptInterface("lo"),
     AcceptInterface("net1") >>

ScriptTail ==
  << AppendInput(<<"--protocol=tcp", "--dport=", listenPort, "--jump=ACCEPT">>),
     AppendInput(<<"--protocol=udp", "--dport=53", "--jump=ACCEPT">>),
     AppendInput(<<"--match=conntrack", "--ctstate=ESTABLISHED,RELATED", "--jump=ACCEPT">>),
     AppendInput(<<"--jump=REJECT">>) >>

\* The log entries of the calls of Start whose save succeeded.
StartsSaved == {i \in DOMAIN mgrLog : mgrLog[i].op = "Start" /\ mgrLog[i].saveErr = ErrNil}

\* C32 as stated: the commands a Start issues after the save are, in order,
\* flush, policy DROP, the ACCEPT of every interface but the managed one,
\* ACCEPT ICMP, ACCEPT tcp to the listen port, ACCEPT udp 53, ACCEPT
\* conntrack ESTABLISHED,RELATED, REJECT; a Start whose script fails issued a
\* prefix of them.
C32_StartScriptWithICMP ==
  \A i \in StartsSaved :
    /\ IsPrefix(mgrLog[i].script,
                ScriptHead \o <<AppendInput(<<"--protocol=icmp", "--jump=ACCEPT">>)>> \o ScriptTail)
    /\ mgrLog[i].err = ErrNil => Len(mgrLog[i].script) = Len(ScriptHead) + 1 + Len(ScriptTail)

\* C32, amended: the commands a Start issues after the save are, in order,
\* flush, policy DROP, the ACCEPT of every interface but the managed one,
\* ACCEPT tcp to the listen port, ACCEPT udp 53, ACCEPT conntrack
\* ESTABLISHED,RELATED, REJECT, with no command for ICMP and none for the
\* managed device; a Start whose script fails issued a prefix of them, and a
\* Start whose save failed issued none.
C32_StartScript ==
  \A i \in DOMAIN mgrLog :
    mgrLog[i].op = "Start" =>
      /\ mgrLog[i].saveErr # ErrNil => mgrLog[i].script = <<>>
      /\ IsPrefix(mgrLog[i].script, ScriptHead \o ScriptTail)
      /\ (mgrLog[i].saveErr = ErrNil /\ mgrLog[i].err = ErrNil)
           => mgrLog[i].script = ScriptHead \o ScriptTail

\* A Start ran its whole script: eight commands, the fifth of them the
\* ACCEPT for tcp to the listen port.
C32_Witness ==
  \E i \in StartsSaved :
    /\ mgrLog[i].err = ErrNil
    /\ Len(mgrLog[i].script) = 8
    /\ mgrLog[i].script[5].rule[1] = "--protocol=tcp"
    /\ chain = [j \in 1..6 |-> mgrLog[i].script[j + 2].rule]

\* Watch returned without having read the counter or waited for a tick.
WatchDidNothing ==
  /\ watch.firstErr = "-" /\ watch.got = NoNetDevLine
  /\ watch.reads = 0 /\ watch.ticks = 0
  /\ current = Big(0)

\* C33 as stated: with no ceiling Watch returns nil without sampling; with a
\* ceiling it returns only once its context is done, then with the error of
\* the context, having received at most one tick after the context was done.
C33_WatchEndsOnlyWithContext ==
  /\ watch.late <= 1
  /\ watch.pc = "returned" =>
       IF limit = 0
         THEN watch.ret = ErrNil /\ WatchDidNothing
       ELSE watch.ctxErr # ErrNil /\ watch.ret = watch.ctxErr

\* C33, amended: with no ceiling Watch returns nil without sampling. With a
\* ceiling, if the read before the loop fails Watch returns that error at
\* once, before any tick and without publishing a rate; otherwise it reads
\* the counter on every tick it receives while its context is live, returns
\* only once the context is done, then with the error of the context, and
\* receives at most one tick after the context was done. A Watch that was
\* called returns once its context is done.
C33_WatchTermination ==
  /\ [](/\ watch.late <= 1
        /\ watch.reads <= watch.ticks /\ watch.ticks <= watch.reads + 1
        /\ (watch.pc = "tick" /\ watch.ctxErr = ErrNil) => watch.reads = watch.ticks
        /\ watch.pc = "returned" =>
             IF limit = 0
               THEN watch.ret = ErrNil /\ WatchDidNothing
             ELSE IF watch.firstErr # ErrNil
               THEN /\ watch.ret = watch.firstErr
                    /\ watch.reads = 0 /\ watch.ticks = 0 /\ current = Big(0)
             ELSE watch.ctxErr # ErrNil /\ watch.ret = watch.ctxErr)
  /\ (watch.pc # "idle" /\ watch.ctxErr # ErrNil) ~> (watch.pc = "returned")

\* Watch sampled on two ticks, its context was done while it waited for the
\* third, and it returned the error of the context after that tick.
C33_Witness ==
  /\ limit > 0
  /\ watch.pc = "returned"
  /\ watch.ret \in CtxErrs
  /\ watch.reads = 2 /\ watch.ticks = 3 /\ watch.late = 1

\* C34: a pass of the loop body in which the read fails, or in which the
\* time since the last accepted tick is not more than half the period,
\* leaves the published rate, the remembered byte count, the remembered tick
\* and the estimate as they were, and Watch goes on to wait for the next
\* tick.
C34_SkippedTickChangesNothing ==
  [][(watch.pc = "body" /\ watch'.pc # "body") =>
       LET v == watch'.got
       IN (v.err # ErrNil \/ 2 * (watch.tickNow - watch.tickPrev) <= Period) =>
            /\ current' = current
            /\ watch'.prevTxBytes = watch.prevTxBytes
            /\ watch'.tickPrev = watch.tickPrev
            /\ watch'.ratePrev = watch.ratePrev
            /\ watch'.pc = "tick"
            /\ watch'.ret = watch.ret]_vars

\* A rate was published, and the last pass of the body was skipped: its read
\* failed, or it read more bytes on a tick that came too early.
C34_Witness ==
  /\ watch.pc = "tick"
  /\ RateAbove(0)
  /\ watch.reads >= 2
  /\ \/ watch.got.err # ErrNil
     \/ /\ watch.got.TxBytes > watch.prevTxBytes
        /\ 2 * (watch.tickNow - watch.tickPrev) <= Period

\* C35: a call of ReadOnce reads from its reader once, into a buffer of one
\* byte; its channel is closed once, and only after that read has returned,
\* whatever the read returned; what the caller receives from the channel is
\* its closing, never a value.
C35_ReadOnceClosesAfterOneRead ==
  \A i \in Req :
    /\ reader[i].reads <= 1
    /\ reader[i].closes <= 1
    /\ reader[i].n <= 1
    /\ reader[i].pc # "idle" => reader[i].size = 1
    /\ reader[i].ch = "closed" =>
         /\ reader[i].reads = 1
         /\ reader[i].closes = 1
         /\ reader[i].err \in {ErrNil, io_EOF, ErrRead}
    /\ reader[i].pc = "read" => ENABLED ReaderClose(i)
    /\ reader[i].pc = "done" => reader[i].ch = "closed"
    /\ reader[i].recv # "-" => (reader[i].recv = "closed" /\ reader[i].ch = "closed")

\* One call ended after a read that took a byte of a longer message, the
\* other after a read that failed or met the end; both channels were closed
\* and the callers saw it.
C35_Witness ==
  \E i, j \in Req :
    /\ reader[i].pc = "done" /\ reader[i].n = 1 /\ reader[i].err = ErrNil
    /\ reader[i].src.buf = <<"e">>
    /\ reader[j].pc = "done" /\ reader[j].n = 0 /\ reader[j].err \in {io_EOF, ErrRead}
    /\ reader[i].recv = "closed" /\ reader[j].recv = "closed"

\* The remote address of a request has no client IP address in its host
\* part: it does not split into host and port, or the host is not an address.
NoClientIP(ra) ==
  \/ SplitHostPort(ra).err # ErrNil
  \/ ParseIP(SplitHostPort(ra).host) = NilIP

\* C36: a GET request whose remote address has no client IP address in its
\* host part is answered 400 by the step that receives it, and no call is
\* made on the manager for it.
C36_BadRemoteRejected ==
  \A r \in Req :
    (pc[r] # "idle" /\ req[r].method = "GET" /\ NoClientIP(req[r].remoteAddr)) =>
      /\ pc[r] = "done"
      /\ status[r] = StatusBadRequest
      /\ calls[r] = <<>>

\* C37: a GET request from a client address whose attached claim is made out
\* to "monitoring" and has not expired is not turned away by AllowRequest
\* for its claim: it is not answered 400, and it goes on to Grant.
C37_MonitoringClaimAdmitted ==
  \A r \in Req :
    (/\ pc[r] # "idle"
     /\ req[r].method = "GET"
     /\ ~NoClientIP(req[r].remoteAddr)
     /\ req[r].claim.present
     /\ req[r].claim.sub = monitorSubject
     /\ req[r].claim.exp >= now) =>
      /\ status[r] # StatusBadRequest
      /\ pc[r] # "done" \/ calls[r] # <<>>

\* C38: no step of a request changes the TokenController's Required,
\* Expected or verifier. A request that reaches the next handler with a token
\* carries, in the context handed on, the claims of its own token, verified
\* against the instant that request itself read; its incoming context is as
\* it came; a request answered 401 hands on nothing.
C38_ControllerUntouched ==
  /\ [][Required' = Required /\ Expected' = Expected /\ verifier' = verifier]_vars
  /\ [](\A r \in Req :
          /\ treq[r].ctx = NoCtxClaim
          /\ treq[r].pc \in {"verify", "next", "done"} /\ treq[r].rq.given =>
               /\ treq[r].exp.time = treq[r].copiedAt
               /\ treq[r].exp.iss = Expected.iss /\ treq[r].exp.aud = Expected.aud
          /\ treq[r].out.set =>
               /\ treq[r].rq.given
               /\ treq[r].out.cl = UnmarshalClaims(treq[r].rq.token.payload)
               /\ treq[r].res.expected.time = treq[r].copiedAt
          /\ treq[r].code = StatusUnauthorized => ~treq[r].out.set /\ ~treq[r].seen.set
          /\ treq[r].code = StatusOK => treq[r].seen = treq[r].out)

\* Two requests were inside Limit at once with different tokens, read the
\* clock at different instants, and each reached the next handler with its
\* own claims.
C38_Witness ==
  \E r, q \in Req :
    /\ treq[r].code = StatusOK /\ treq[q].code = StatusOK
    /\ treq[r].seen.set /\ treq[q].seen.set
    /\ treq[r].seen.cl # treq[q].seen.cl
    /\ treq[r].copiedAt # treq[q].copiedAt
    /\ Expected.time = 0

\* C39: when tokens are required, a request for which Grant is called has a
\* claim in its context, and that claim is the one Verify returned for its
\* token in the credential gate. A request that reaches the handler without
\* a claim is answered 400 without a call of Grant; when the credential gate
\* is not in the chain, Grant is called for no request at all.
C39_NoGrantWithoutClaim ==
  /\ [](\A r \in Req :
          requireTokens =>
            /\ calls[r] # <<>> => (req[r].claim.present /\ \E i \in DOMAIN gates : gates[i] = "token")
            /\ pc[r] \notin {"idle", "done"} => req[r].claim.present
            /\ (pc[r] # "idle" /\ ~req[r].claim.present) =>
                 (pc[r] = "done" /\ calls[r] = <<>> /\ hist[r] = <<>>
                  /\ status[r] \in {StatusMethodNotAllowed, StatusBadRequest}))
  /\ [][\A r \in Req :
          (requireTokens /\ pc[r] = "idle" /\ pc'[r] = "grant") =>
            /\ greq.token # ""
            /\ greq.verify.err = ErrNil
            /\ req'[r].claim = greq.verify.claim
            /\ Len(gtrace) >= 2 /\ gtrace[1] = "token" /\ gtrace[2] = "verify"]_vars

\* Tokens are required and the chain has no credential gate: a GET came
\* through the chain to the handler and was answered 400, and Grant was not
\* called.
C39_Witness ==
  /\ requireTokens
  /\ \A i \in DOMAIN gates : gates[i] # "token"
  /\ mainpc = "serving"
  /\ \E r \in Req :
       /\ req[r].method = "GET" /\ ~req[r].claim.present
       /\ greq.token # ""
       /\ status[r] = StatusBadRequest /\ calls[r] = <<>>

\* C40: when wait returns, the connection is closed, whatever woke the
\* select; from then on the connection of a session that has left wait is
\* closed, and a ReadOnce goroutine still blocked in its Read when its
\* session has left wait completes its Read and closes its channel.
C40_ReaderEndsWithSession ==
  /\ [][\A r \in Req :
          (pc[r] = "wait" /\ pc'[r] # "wait") => conn'[r] = "closed"]_vars
  /\ [](\A r \in Req : (rd[r] # "none" /\ pc[r] # "wait") => conn[r] = "closed")
  /\ \A r \in Req : (rd[r] = "reading" /\ pc[r] # "wait") ~> (rd[r] = "closed")

\* wait returned for a cancelled context, and for a deadline, while the
\* client had sent nothing: the reader was still in its Read, and the
\* connection was closed.
C40_Witness ==
  \E r \in Req :
    /\ pc[r] \in {"revoke", "done"} /\ conn[r] = "closed" /\ rd[r] = "reading"
    /\ ctxDone[r] \/ now >= deadline[r]

====
